---------------------------- MODULE Spec2Model ----------------------------
(***************************************************************************)
(* A model of the CCAI outreach automation scripts: the delivery clients   *)
(* (CCAPIClient.send_* and send_email_via_ccai), the LinkedIn scraper with *)
(* its fallback profile, the prompt formatters, the AI / fallback email    *)
(* generators and the generation and sending batch drivers.                *)
(*                                                                         *)
(* Text is modelled as a sequence of tokens: a token is a word, a single   *)
(* separator character (" ", "\n", "-", "/") or a literal marker           *)
(* ("Subject: ", "Role:", "<p>", "</p>").  The Python string operations    *)
(* (split, strip, replace, in, startswith, join) are computed on these     *)
(* sequences the way Python computes them on characters.                   *)
(***************************************************************************)
EXTENDS Integers, Sequences, FiniteSets, TLC

VARIABLES
    s_op, s_pc, s_creds, s_exc, s_status, s_body, s_posts, s_result,
    s_payload,
    sc_pc, sc_url, sc_page, sc_name, sc_headline, sc_location, sc_lookups,
    sc_result,
    g_variant, g_pc, g_person, g_csv, g_first, g_site, g_lines,
    g_profile_info, g_result,
    b_pc, b_csv, b_limit, b_creds, b_selected, b_i, b_results, b_file,
    b_contacts, b_j, b_sent, b_sent_emails, b_errors, b_log,
    w_pc, w_creds, w_contacts, w_i, w_scrapes, w_generated, w_requests,
    w_successful, w_exc, w_log,
    ws_pc, ws_url, ws_company, ws_page, ws_result,
    d_pc, d_cookie, d_instance, d_steps, d_created, d_live, d_calls, d_returned,
    c_pc, c_urls, c_i, c_run, c_cache, c_writes, c_log,
    f_variant, f_profile_info, f_first, f_site, f_results,
    r_fn, r_pc, r_creds, r_driver, r_quits, r_i, r_results, r_log, r_exc

sendVars == <<s_op, s_pc, s_creds, s_exc, s_status, s_body, s_posts, s_result,
              s_payload>>

scrapeVars == <<sc_pc, sc_url, sc_page, sc_name, sc_headline, sc_location,
                sc_lookups, sc_result>>

genVars == <<g_variant, g_pc, g_person, g_csv, g_first, g_site, g_lines,
             g_profile_info, g_result>>

batchVars == <<b_pc, b_csv, b_limit, b_creds, b_selected, b_i, b_results,
               b_file, b_contacts, b_j, b_sent, b_sent_emails, b_errors,
               b_log>>

webVars == <<w_pc, w_creds, w_contacts, w_i, w_scrapes, w_generated,
             w_requests, w_successful, w_exc, w_log>>

siteVars == <<ws_pc, ws_url, ws_company, ws_page, ws_result>>

driverVars == <<d_pc, d_cookie, d_instance, d_steps, d_created, d_live, d_calls, d_returned>>

cacheVars == <<c_pc, c_urls, c_i, c_run, c_cache, c_writes, c_log>>

fallbackVars == <<f_variant, f_profile_info, f_first, f_site, f_results>>

runVars == <<r_fn, r_pc, r_creds, r_driver, r_quits, r_i, r_results, r_log, r_exc>>

vars == <<sendVars, scrapeVars, genVars, batchVars, webVars, siteVars, driverVars, cacheVars, fallbackVars,
         runVars>>

-----------------------------------------------------------------------------
(* Text helpers                                                            *)

\* All sequences over S of length at most n.
SeqsUpTo(S, n) == UNION {[1..k -> S] : k \in 0..n}

\* s[i..j] (Python s[i-1:j]).
Slice(s, i, j) == IF i > j THEN <<>> ELSE SubSeq(s, i, j)

\* pat occurs in s at position i.
OccursAt(s, pat, i) ==
    /\ i >= 1
    /\ i + Len(pat) - 1 <= Len(s)
    /\ SubSeq(s, i, i + Len(pat) - 1) = pat

\* Python: pat in s.
Contains(s, pat) == \E i \in 1..(Len(s) + 1) : OccursAt(s, pat, i)

\* Python: s.startswith(pat).
StartsWith(s, pat) == OccursAt(s, pat, 1)

-----------------------------------------------------------------------------
(* Delivery clients: CCAPIClient.send_* and send_email_via_ccai            *)

\* The five CCAPIClient send coroutines (they share one body) and the
\* website driver's delivery function.
CCAPIOps == {"send_email", "send_sms", "send_ai_email", "send_single_email",
             "send_test_email"}

ViaOp == "send_email_via_ccai"

SendOps == CCAPIOps \cup {ViaOp}

\* HTTP statuses the delivery endpoint may answer with.
Statuses == {200, 201, 202, 204, 400, 401, 404, 500}

\* Response bodies: one aiohttp's response.json() decodes, and one it
\* raises on (wrong content type, empty or malformed body).
BodyKinds == {"json", "notjson"}

\* What can raise while the payload is built, inside the try block.
BuildErrors(op) ==
    CASE op \in {"send_email", "send_ai_email"} -> {"ImportError"}
      [] op = "send_single_email" -> {"OverflowError", "AttributeError"}
      [] OTHER -> {}

\* The clients that read the endpoint from CCAI_EMAIL_URL (ccai_integration's
\* client has a default base_url instead).
UsesEmailUrl(op) == op \in {"send_ai_email", "send_single_email",
                            "send_test_email", ViaOp}

NoResult == [kind |-> "none", success |-> FALSE, status_code |-> 0,
             error |-> "none"]

\* "success": response.status in [200, 201]
SuccessStatus(status) == status \in {200, 201}

\* The dict returned after the response was decoded.
ResponseResult(status) ==
    [kind |-> "returned", success |-> SuccessStatus(status),
     status_code |-> status, error |-> "none"]

\* Variant: the handler lets the exception reach the caller.
ExceptResult_Reraise(e) ==
    [kind |-> "raised", success |-> FALSE, status_code |-> 0, error |-> e]

\* except Exception as e: return {"success": False, "error": str(e)}
ExceptResult(e) ==
    [kind |-> "returned", success |-> FALSE, status_code |-> 0, error |-> e]

\* send_email_via_ccai: if response.status == 200: return True
ViaSuccessStatus(status) == status = 200

\* send_email_via_ccai returns a bare bool.
ViaResult(b) ==
    [kind |-> "returned", success |-> b, status_code |-> 0, error |-> "none"]

\* if not all([api_key, client_id, email_url]): return False
ViaCredsOk(c) == c.api_key /\ c.client_id /\ c.email_url

\* Time is counted in minutes of Pacific wall-clock time from the midnight
\* that starts the day of the call.
Day == 1440

\* datetime.now(pst) at the call: midnight, 16:30 and 23:59.
Nows == {0, 990, 1439}

\* tomorrow.replace(hour=h, minute=m, second=0, microsecond=0)
TomorrowAt(now, h, m) == ((now + Day) \div Day) * Day + h * 60 + m

\* timedelta(minutes=1) of send_email_via_ccai and timedelta(minutes=2) of
\* send_test_email.
ViaMinutes == 1

TestMinutes == 2

\* schedule_minutes of send_single_email: int(sys.argv[3]) when the command
\* line gives a third argument, else 2.
ScheduleMinutes(op) ==
    IF op = "send_single_email" THEN {-5, 0, 2, 60} ELSE {TestMinutes}

\* scheduled_time as each delivery function computes it.
ScheduledTime(op, now, minutes) ==
    CASE op = "send_email" -> TomorrowAt(now, 16, 30)
      [] op = "send_ai_email" -> TomorrowAt(now, 17, 0)
      [] op = "send_single_email" -> now + minutes
      [] op = "send_test_email" -> now + TestMinutes
      [] OTHER -> now + ViaMinutes

NoPayload == [built |-> FALSE, built_at |-> 0, scheduled |-> FALSE,
              scheduledTimestamp |-> 0, scheduledTimezone |-> "none"]

\* The schedule fields of the campaign dict; send_sms builds a campaign
\* without them.
Payload(op, now, minutes) ==
    IF op = "send_sms"
    THEN [NoPayload EXCEPT !.built = TRUE, !.built_at = now]
    ELSE [built |-> TRUE, built_at |-> now, scheduled |-> TRUE,
          scheduledTimestamp |-> ScheduledTime(op, now, minutes),
          scheduledTimezone |-> "America/Los_Angeles"]

SendIdle ==
    /\ s_op = "none"
    /\ s_pc = "idle"
    /\ s_creds = [api_key |-> TRUE, client_id |-> TRUE, email_url |-> TRUE]
    /\ s_exc = "none"
    /\ s_status = 0
    /\ s_body = "none"
    /\ s_posts = 0
    /\ s_result = NoResult
    /\ s_payload = NoPayload

\* The clients whose constructor reads CCAI_API_KEY and CCAI_CLIENT_ID from
\* the environment (send_single_email.py, send_test_emails.py and the Gmail
\* batch sender); ccai_integration's constructor takes api_key and client_id
\* as arguments.
EnvClientOps == {"send_ai_email", "send_single_email", "send_test_email"}

\* if not self.api_key or not self.client_id: raise ValueError(...)
\* ccai_integration's __init__ stores its arguments without looking at them.
ConstructorRaises(op, c) ==
    op \in EnvClientOps /\ ~(c.api_key /\ c.client_id)

\* A client is about to be constructed, or send_email_via_ccai to be called.
\* s_creds tells which credentials are set (for ccai_integration's client:
\* which were passed non-empty); only a client reading CCAI_EMAIL_URL can
\* lack the endpoint.
SendInit ==
    /\ s_op \in SendOps
    /\ s_pc = IF s_op \in CCAPIOps THEN "new" ELSE "start"
    /\ s_creds \in [api_key : BOOLEAN, client_id : BOOLEAN, email_url : BOOLEAN]
    /\ (~UsesEmailUrl(s_op) => s_creds.email_url)
    /\ s_exc = "none"
    /\ s_status = 0
    /\ s_body = "none"
    /\ s_posts = 0
    /\ s_result = NoResult
    /\ s_payload = NoPayload

\* CCAPIClient.__init__: a ValueError leaves the caller without a client, so
\* no send coroutine runs.
SendConstruct ==
    /\ s_pc = "new"
    /\ s_op \in CCAPIOps
    /\ s_pc' = IF ConstructorRaises(s_op, s_creds) THEN "no_client" ELSE "start"
    /\ UNCHANGED <<s_op, s_creds, s_exc, s_status, s_body, s_posts, s_result,
                   s_payload>>
    /\ UNCHANGED <<scrapeVars, genVars, batchVars, webVars, siteVars, driverVars, cacheVars, fallbackVars,
                   runVars>>

\* CCAPIClient.send_*: the schedule and the campaign dict are built.
SendBuild ==
    /\ s_pc = "start"
    /\ s_op \in CCAPIOps
    /\ \/ /\ s_pc' = "built"
          /\ \E now \in Nows, minutes \in ScheduleMinutes(s_op) :
               s_payload' = Payload(s_op, now, minutes)
          /\ UNCHANGED <<s_exc, s_result>>
       \/ \E e \in BuildErrors(s_op) :
            /\ s_exc' = e
            /\ s_result' = ExceptResult(e)
            /\ s_pc' = "done"
            /\ UNCHANGED s_payload
    /\ UNCHANGED <<s_op, s_creds, s_status, s_body, s_posts>>
    /\ UNCHANGED <<scrapeVars, genVars, batchVars, webVars, siteVars, driverVars, cacheVars, fallbackVars,
                   runVars>>

\* CCAPIClient.send_*: session.post(...).  An unset CCAI_EMAIL_URL makes the
\* URL "None/api/v1/campaigns", which aiohttp refuses before sending.
SendPost ==
    /\ s_pc = "built"
    /\ s_op \in CCAPIOps
    /\ \/ /\ ~s_creds.email_url
          /\ s_exc' = "InvalidURL"
          /\ s_result' = ExceptResult("InvalidURL")
          /\ s_pc' = "done"
          /\ UNCHANGED <<s_status, s_body, s_posts>>
       \/ /\ s_creds.email_url
          /\ s_posts' = s_posts + 1
          /\ \/ /\ s_exc' = "ClientError"
                /\ s_result' = ExceptResult("ClientError")
                /\ s_pc' = "done"
                /\ UNCHANGED <<s_status, s_body>>
             \/ \E st \in Statuses, b \in BodyKinds :
                  /\ s_status' = st
                  /\ s_body' = b
                  /\ s_pc' = "responded"
                  /\ UNCHANGED <<s_exc, s_result>>
    /\ UNCHANGED <<s_op, s_creds, s_payload>>
    /\ UNCHANGED <<scrapeVars, genVars, batchVars, webVars, siteVars, driverVars, cacheVars, fallbackVars,
                   runVars>>

\* CCAPIClient.send_*: result = await response.json(), then the return.
SendRead ==
    /\ s_pc = "responded"
    /\ s_op \in CCAPIOps
    /\ IF s_body = "json"
          THEN /\ s_result' = ResponseResult(s_status)
               /\ UNCHANGED s_exc
          ELSE /\ s_exc' = "ContentTypeError"
               /\ s_result' = ExceptResult("ContentTypeError")
    /\ s_pc' = "done"
    /\ UNCHANGED <<s_op, s_creds, s_status, s_body, s_posts, s_payload>>
    /\ UNCHANGED <<scrapeVars, genVars, batchVars, webVars, siteVars, driverVars, cacheVars, fallbackVars,
                   runVars>>

\* send_email_via_ccai: the credential check and the payload (outside try).
ViaCheck ==
    /\ s_pc = "start"
    /\ s_op = ViaOp
    /\ IF ViaCredsOk(s_creds)
          THEN /\ s_pc' = "built"
               /\ \E now \in Nows :
                    s_payload' = Payload(s_op, now, ViaMinutes)
               /\ UNCHANGED s_result
          ELSE /\ s_pc' = "done"
               /\ s_result' = ViaResult(FALSE)
               /\ UNCHANGED s_payload
    /\ UNCHANGED <<s_op, s_creds, s_exc, s_status, s_body, s_posts>>
    /\ UNCHANGED <<scrapeVars, genVars, batchVars, webVars, siteVars, driverVars, cacheVars, fallbackVars,
                   runVars>>

\* send_email_via_ccai: session.post(...) inside the try block.
ViaPost ==
    /\ s_pc = "built"
    /\ s_op = ViaOp
    /\ s_posts' = s_posts + 1
    /\ \/ /\ s_exc' = "ClientError"
          /\ s_result' = ViaResult(FALSE)
          /\ s_pc' = "done"
          /\ UNCHANGED <<s_status, s_body>>
       \/ \E st \in Statuses, b \in BodyKinds :
            /\ s_status' = st
            /\ s_body' = b
            /\ s_pc' = "responded"
            /\ UNCHANGED <<s_exc, s_result>>
    /\ UNCHANGED <<s_op, s_creds, s_payload>>
    /\ UNCHANGED <<scrapeVars, genVars, batchVars, webVars, siteVars, driverVars, cacheVars, fallbackVars,
                   runVars>>

\* send_email_via_ccai: the status test; response.text() is read only on the
\* failure branch and any error it raises is caught.
ViaStatus ==
    /\ s_pc = "responded"
    /\ s_op = ViaOp
    /\ s_result' = ViaResult(ViaSuccessStatus(s_status))
    /\ s_pc' = "done"
    /\ UNCHANGED <<s_op, s_creds, s_exc, s_status, s_body, s_posts, s_payload>>
    /\ UNCHANGED <<scrapeVars, genVars, batchVars, webVars, siteVars, driverVars, cacheVars, fallbackVars,
                   runVars>>

SendNext ==
    \/ SendConstruct
    \/ SendBuild
    \/ SendPost
    \/ SendRead
    \/ ViaCheck
    \/ ViaPost
    \/ ViaStatus

-----------------------------------------------------------------------------
(* Profile scraper: AIEmailGenerator.scrape_linkedin_with_posts            *)

\* Longest profile URL drawn, in characters.
MaxUrlLen == 3

\* Characters a profile URL is drawn from: a lower-case and an upper-case
\* letter, a separator, a digit and the path separator.
UrlChars == {"j", "G", "-", "7", "/"}

IsUpper(c) == c \in {"J", "G"}

IsAlpha(c) == c \in {"j", "J", "g", "G"}

ToUpper(c) == CASE c = "j" -> "J" [] c = "g" -> "G" [] OTHER -> c

ToLower(c) == CASE c = "J" -> "j" [] c = "G" -> "g" [] OTHER -> c

\* str.capitalize(): first character upper-cased, the rest lower-cased.
Capitalize(w) ==
    [i \in 1..Len(w) |-> IF i = 1 THEN ToUpper(w[i]) ELSE ToLower(w[i])]

\* str.rstrip('/')
RECURSIVE RStripSlash(_)
RStripSlash(u) ==
    IF u # <<>> /\ u[Len(u)] = "/" THEN RStripSlash(SubSeq(u, 1, Len(u) - 1))
    ELSE u

\* u.split('/')[-1]: what follows the last "/".
RECURSIVE LastSegment(_)
LastSegment(u) ==
    IF u = <<>> \/ u[Len(u)] = "/" THEN <<>>
    ELSE Append(LastSegment(SubSeq(u, 1, Len(u) - 1)), u[Len(u)])

\* The character loop of _create_fallback_profile: parts collected so far
\* and the part being read.
RECURSIVE SlugParts(_, _, _, _)
SlugParts(slug, i, parts, cur) ==
    IF i > Len(slug)
    THEN IF cur # <<>> THEN Append(parts, Capitalize(cur)) ELSE parts
    ELSE LET c == slug[i] IN
         IF IsUpper(c) /\ cur # <<>>
         THEN SlugParts(slug, i + 1, Append(parts, Capitalize(cur)), <<c>>)
         ELSE IF IsAlpha(c)
         THEN SlugParts(slug, i + 1, parts, Append(cur, c))
         ELSE IF c \in {"-", "_"} /\ cur # <<>>
         THEN SlugParts(slug, i + 1, Append(parts, Capitalize(cur)), <<>>)
         ELSE SlugParts(slug, i + 1, parts, cur)

\* " ".join(parts)
RECURSIVE JoinWith(_, _)
JoinWith(parts, sep) ==
    IF parts = <<>> THEN <<>>
    ELSE IF Len(parts) = 1 THEN parts[1]
    ELSE parts[1] \o sep \o JoinWith(Tail(parts), sep)

LinkedInUser == <<"LinkedIn", " ", "User">>

\* Variant: the name is the joined parts even when there are none.
FallbackName_NoDefault(url) ==
    JoinWith(SlugParts(LastSegment(RStripSlash(url)), 1, <<>>, <<>>), <<" ">>)

\* The display name _create_fallback_profile derives from the URL.
FallbackName(url) ==
    LET slug == LastSegment(RStripSlash(url))
        parts == SlugParts(slug, 1, <<>>, <<>>)
    IN IF slug # <<>> /\ slug # <<"unknown">>
       THEN IF parts # <<>> THEN JoinWith(parts, <<" ">>) ELSE LinkedInUser
       ELSE LinkedInUser

\* _create_fallback_profile
CreateFallbackProfile(url) ==
    [name |-> FallbackName(url),
     company |-> <<"Company", " ", "not", " ", "available">>,
     job_title |-> <<"Professional">>,
     about |-> <<"LinkedIn profile information not available due to access restrictions.">>,
     recent_posts |-> <<>>,
     location |-> <<"Location", " ", "not", " ", "available">>,
     experiences |-> <<>>]

\* Characters of a token, for len(text).
TokChars(t) ==
    CASE t \in {" ", ","} -> 1
      [] t = "at" -> 2
      [] t \in {"CEO", "Dev"} -> 3
      [] t \in {"Jane", "Acme", "500+"} -> 4
      [] t = "Paris" -> 5
      [] t = "France" -> 6
      [] t = "connections" -> 11
      [] OTHER -> 8

RECURSIVE CharLen(_)
CharLen(s) == IF s = <<>> THEN 0 ELSE TokChars(Head(s)) + CharLen(Tail(s))

\* The texts an element of the page may show (already stripped).
PageTexts ==
    {<<>>, <<"Jane">>, <<"Dev">>, <<"CEO", " ", "at", " ", "Acme">>,
     <<"500+", " ", "connections">>, <<"Paris", ",", " ", "France">>}

\* A selector whose lookup raises.
RaisesLookup == << <<"<raises>">> >>

\* No element qualified.
NoText == <<"<none>">>

\* What one field's selectors match, selector by selector: a selector's
\* lookup raises, or gives the texts of the elements it matched.
FieldLookups ==
    {<<>>,
     << <<>> >>,
     << <<<<>>, <<"Jane">>>> >>,
     << RaisesLookup, <<<<"Dev">>, <<"CEO", " ", "at", " ", "Acme">>>> >>,
     << <<<<"500+", " ", "connections">>>>, <<<<"Paris", ",", " ", "France">>>> >>}

\* The filter_func of each field: none for the name, len > 5 and no
\* "connections" for the headline, a comma for the location.
PassesFilter(field, text) ==
    CASE field = "headline" ->
            CharLen(text) > 5 /\ ~Contains(text, <<"connections">>)
      [] field = "location" -> Contains(text, <<",">>)
      [] OTHER -> TRUE

\* The texts of all selectors in lookup order, a raising selector skipped.
RECURSIVE FlattenLookups(_)
FlattenLookups(lookups) ==
    IF lookups = <<>> THEN <<>>
    ELSE (IF Head(lookups) = RaisesLookup THEN <<>> ELSE Head(lookups))
         \o FlattenLookups(Tail(lookups))

RECURSIVE FirstPassing(_, _)
FirstPassing(field, texts) ==
    IF texts = <<>> THEN NoText
    ELSE IF Head(texts) # <<>> /\ PassesFilter(field, Head(texts))
         THEN Head(texts)
         ELSE FirstPassing(field, Tail(texts))

\* ai_email_generator.py imports By only inside scrape_linkedin_with_posts:
\* in _extract_element_text the name By is unbound, so every
\* driver.find_elements(By.CSS_SELECTOR, ...) raises NameError before the
\* lookup is made, and the bare except skips the selector.
ByInScope == FALSE

\* _extract_element_text
ExtractElementText(field, lookups, default) ==
    IF ~ByInScope THEN default
    ELSE LET t == FirstPassing(field, FlattenLookups(lookups))
         IN IF t = NoText THEN default ELSE t

\* Selector lookups _extract_element_text gets to make.
LookupsMade(lookups) == IF ByInScope THEN Len(lookups) ELSE 0

NameNotFound == <<"Name not found">>

HeadlineNotFound == <<"Headline not found">>

LocationNotFound == <<"Location not found">>

\* s.split(pat)[-1]: what follows the last occurrence of pat.
RECURSIVE AfterLast(_, _)
AfterLast(s, pat) ==
    IF s = <<>> \/ ~Contains(s, pat) THEN s
    ELSE IF OccursAt(s, pat, 1) /\ ~Contains(Tail(s), pat)
         THEN SubSeq(s, Len(pat) + 1, Len(s))
         ELSE AfterLast(Tail(s), pat)

IsSpace(t) == t \in {" ", "\n"}

\* str.strip()
RECURSIVE Strip(_)
Strip(s) ==
    IF s = <<>> THEN s
    ELSE IF IsSpace(Head(s)) THEN Strip(Tail(s))
    ELSE IF IsSpace(s[Len(s)]) THEN Strip(SubSeq(s, 1, Len(s) - 1))
    ELSE s

\* _extract_company_from_headline
ExtractCompanyFromHeadline(headline) ==
    IF Contains(headline, <<" ", "at", " ">>)
    THEN Strip(AfterLast(headline, <<" ", "at", " ">>))
    ELSE IF Contains(headline, <<" ", "@", " ">>)
    THEN Strip(AfterLast(headline, <<" ", "@", " ">>))
    ELSE <<"Company not found">>

\* The page the driver shows after driver.get: the navigation raised, or a
\* page with a title, a current URL and elements.
Pages ==
    {[nav |-> "raises", unworking |-> FALSE, urlflag |-> "none",
      name |-> <<>>, headline |-> <<>>, location |-> <<>>]}
    \cup
    [nav : {"ok"}, unworking : BOOLEAN,
     urlflag : {"none", "login", "authwall", "challenge"},
     name : FieldLookups, headline : FieldLookups, location : {<<>>}]

\* A test that would look at the title only.
PageBlocked_TitleOnly(page) == page.unworking

\* "this page isn't working" in title, or login / authwall / challenge in
\* the current URL.
PageBlocked(page) == page.unworking \/ page.urlflag # "none"

NoProfile ==
    [name |-> <<>>, company |-> <<>>, job_title |-> <<>>, about |-> <<>>,
     recent_posts |-> <<>>, location |-> <<>>, experiences |-> <<>>]

NoPage ==
    [nav |-> "none", unworking |-> FALSE, urlflag |-> "none",
     name |-> <<>>, headline |-> <<>>, location |-> <<>>]

ScrapeIdle ==
    /\ sc_pc = "idle"
    /\ sc_url = <<>>
    /\ sc_page = NoPage
    /\ sc_name = <<>>
    /\ sc_headline = <<>>
    /\ sc_location = <<>>
    /\ sc_lookups = 0
    /\ sc_result = [kind |-> "none", fallback |-> FALSE, profile |-> NoProfile]

ScrapeInit ==
    /\ sc_pc = "start"
    /\ sc_url \in SeqsUpTo(UrlChars, MaxUrlLen)
    /\ sc_page = NoPage
    /\ sc_name = <<>>
    /\ sc_headline = <<>>
    /\ sc_location = <<>>
    /\ sc_lookups = 0
    /\ sc_result = [kind |-> "none", fallback |-> FALSE, profile |-> NoProfile]

\* What the scrape hands back when it falls back.
FallbackResult(url) ==
    [kind |-> "returned", fallback |-> TRUE,
     profile |-> CreateFallbackProfile(url)]

\* A test that would never give up on the extracted fields.
BothFailed_Never(name, headline) == FALSE

\* if name == "Name not found" and headline == "Headline not found":
BothFailed(name, headline) ==
    name = NameNotFound /\ headline = HeadlineNotFound

\* driver.get(linkedin_url); a raise is caught by the outer except, which
\* returns the fallback profile.
ScrapeNavigate ==
    /\ sc_pc = "start"
    /\ \E pg \in Pages :
         /\ sc_page' = pg
         /\ IF pg.nav = "raises"
               THEN /\ sc_result' = FallbackResult(sc_url)
                    /\ sc_pc' = "done"
               ELSE /\ sc_pc' = "loaded"
                    /\ UNCHANGED sc_result
    /\ UNCHANGED <<sc_url, sc_name, sc_headline, sc_location, sc_lookups>>
    /\ UNCHANGED <<sendVars, genVars, batchVars, webVars, siteVars, driverVars, cacheVars, fallbackVars,
                   runVars>>

\* The title / current URL test.
ScrapeCheckPage ==
    /\ sc_pc = "loaded"
    /\ IF PageBlocked(sc_page)
          THEN /\ sc_result' = FallbackResult(sc_url)
               /\ sc_pc' = "done"
          ELSE /\ sc_pc' = "extract"
               /\ UNCHANGED sc_result
    /\ UNCHANGED <<sc_url, sc_page, sc_name, sc_headline, sc_location,
                   sc_lookups>>
    /\ UNCHANGED <<sendVars, genVars, batchVars, webVars, siteVars, driverVars, cacheVars, fallbackVars,
                   runVars>>

\* The three _extract_element_text calls.
ScrapeExtract ==
    /\ sc_pc = "extract"
    /\ sc_name' = ExtractElementText("name", sc_page.name, NameNotFound)
    /\ sc_headline' =
           ExtractElementText("headline", sc_page.headline, HeadlineNotFound)
    /\ sc_location' =
           ExtractElementText("location", sc_page.location, LocationNotFound)
    /\ sc_lookups' = sc_lookups + LookupsMade(sc_page.name)
                       + LookupsMade(sc_page.headline)
                       + LookupsMade(sc_page.location)
    /\ sc_pc' = "extracted"
    /\ UNCHANGED <<sc_url, sc_page, sc_result>>
    /\ UNCHANGED <<sendVars, genVars, batchVars, webVars, siteVars, driverVars, cacheVars, fallbackVars,
                   runVars>>

\* The fallback test on name and headline, and the result dict.
ScrapeFinish ==
    /\ sc_pc = "extracted"
    /\ IF BothFailed(sc_name, sc_headline)
          THEN sc_result' = FallbackResult(sc_url)
          ELSE sc_result' =
                 [kind |-> "returned", fallback |-> FALSE,
                  profile |->
                    [name |-> sc_name,
                     company |-> ExtractCompanyFromHeadline(sc_headline),
                     job_title |-> sc_headline,
                     about |-> <<>>,
                     recent_posts |-> <<>>,
                     location |-> sc_location,
                     experiences |-> <<>>]]
    /\ sc_pc' = "done"
    /\ UNCHANGED <<sc_url, sc_page, sc_name, sc_headline, sc_location,
                   sc_lookups>>
    /\ UNCHANGED <<sendVars, genVars, batchVars, webVars, siteVars, driverVars, cacheVars, fallbackVars,
                   runVars>>

ScrapeNext ==
    \/ ScrapeNavigate
    \/ ScrapeCheckPage
    \/ ScrapeExtract
    \/ ScrapeFinish

-----------------------------------------------------------------------------
(* Prompt formatters and email generators                                  *)
(* ai_email_generator.py ("shared"), ai_gmail_outbound.py ("gmail") and    *)
(* ai_website_outbound.py ("website")                                      *)

\* Longest title or company text drawn, in tokens.
MaxFieldLen == 2

\* A dict key that is missing, and a value that is None.
Absent == <<"<absent>">>

Null == <<"<null>">>

\* dict.get(key, default): the default only for a missing key.
Get(v, default) == IF v = Absent THEN default ELSE v

\* Python truth of a value read with get(key): None and "" are false.
Truthy(v) == v # Absent /\ v # Null /\ v # <<>>

\* str(v) inside an f-string: None is written "None".
Fmt(v) == IF v = Null THEN <<"None">> ELSE v

\* Tokens a scraped title is drawn from, and a company.
TitleToks == {"CEO", " ", "at"}

CompanyToks == {"Acme", " "}

\* A headline as the scraper stores it under job_title.
Headline == <<"CEO", " ", "at", " ", "Acme">>

TitleValues ==
    {Absent, Null, Headline} \cup SeqsUpTo(TitleToks, MaxFieldLen)

CompanyValues == {Absent, Null} \cup SeqsUpTo(CompanyToks, MaxFieldLen)

\* First names (or, for the website generator, contact names) passed in.
FirstNames == {<<>>, <<"Jane">>, <<"</p>">>}

ContactNames == {<<>>, <<"Jane", " ", "Doe">>, <<" ">>, <<"<p>">>}

\* The rest of a profile: nothing, or an about text, two posts, and two
\* experiences of which the first lacks its institution.
PlainExtras ==
    [about |-> <<>>, recent_posts |-> <<>>, experiences |-> <<>>,
     recent_activity |-> Absent]

RichExtras ==
    [about |-> <<"bio">>,
     recent_posts |-> << <<"launch">>, <<>> >>,
     experiences |-> <<[position_title |-> <<"Dev">>, institution_name |-> <<>>],
                       [position_title |-> <<"CEO">>, institution_name |-> <<"Acme">>]>>,
     recent_activity |-> <<"launch">>]

\* The spreadsheet row: none (format_profile_for_ai's default), a row with
\* empty cells, or a filled row.
NoCsv ==
    [present |-> FALSE, first |-> <<>>, title |-> <<>>, company |-> <<>>,
     industry |-> <<>>, aws |-> <<>>]

EmptyCsv == [NoCsv EXCEPT !.present = TRUE]

FullCsv ==
    [present |-> TRUE, first |-> <<"Jane">>, title |-> <<"CEO">>,
     company |-> <<"Acme">>, industry |-> <<"SaaS">>,
     aws |-> <<"AWS", " ", "confirmed">>]

\* s with every token tok removed: s.replace(tok, "").
RemoveTok(s, tok) == SelectSeq(s, LAMBDA t : t # tok)

\* s.split(sep) for a one-token separator.
SplitOn(s, sep) ==
    LET at == {i \in 1..Len(s) : s[i] = sep}
        \* position of the k-th separator; 0 before the first, Len(s) + 1
        \* after the last
        pos(k) == IF k = 0 THEN 0
                  ELSE IF k > Cardinality(at) THEN Len(s) + 1
                  ELSE CHOOSE i \in at : Cardinality({j \in at : j < i}) = k - 1
    IN [k \in 1..(Cardinality(at) + 1) |->
           Slice(s, pos(k - 1) + 1, pos(k) - 1)]

\* First position at which pat occurs in s (pat occurs in s).
FirstAt(s, pat) == CHOOSE i \in 1..(Len(s) + 1) :
    OccursAt(s, pat, i) /\ \A j \in 1..(i - 1) : ~OccursAt(s, pat, j)

\* s.split(pat, 1) when pat occurs in s.
SplitOnce(s, pat) ==
    LET i == FirstAt(s, pat)
    IN <<Slice(s, 1, i - 1), Slice(s, i + Len(pat), Len(s))>>

\* s[:n] in characters; a token cut in two is dropped.
RECURSIVE TruncChars(_, _)
TruncChars(s, n) ==
    IF s = <<>> \/ TokChars(Head(s)) > n THEN <<>>
    ELSE <<Head(s)>> \o TruncChars(Tail(s), n - TokChars(Head(s)))

\* s.lower() contains "confirmed".
HasConfirmed(s) == Contains(s, <<"confirmed">>) \/ Contains(s, <<"Confirmed">>)

\* One output line of a formatter: the label it starts with, the values
\* written after it, and its text.
Line(label, values, text) == [label |-> label, values |-> values, text |-> text]

NameLine(name) == Line("Name", <<name>>, <<"Name:", " ">> \o Fmt(name))

\* profile_info.append(f"Role: {title} at {company}")
RoleLine(title, company) ==
    Line("Role", <<title, company>>,
         <<"Role:", " ">> \o Fmt(title) \o <<" ", "at", " ">> \o Fmt(company))

PostLabel(i) == IF i = 1 THEN "Post 1:" ELSE IF i = 2 THEN "Post 2:" ELSE "Post n:"

RECURSIVE PostLines(_, _)
PostLines(posts, i) ==
    IF posts = <<>> THEN <<>>
    ELSE <<Line("Post", <<Head(posts)>>, <<PostLabel(i), " ">> \o Fmt(Head(posts)))>>
         \o PostLines(Tail(posts), i + 1)

RECURSIVE ExperienceLines(_)
ExperienceLines(exps) ==
    IF exps = <<>> THEN <<>>
    ELSE LET e == Head(exps) IN
         (IF Truthy(e.position_title) /\ Truthy(e.institution_name)
          THEN <<Line("Experience", <<e.position_title, e.institution_name>>,
                      <<"-", " ">> \o e.position_title \o <<" ", "at", " ">>
                        \o e.institution_name)>>
          ELSE <<>>)
         \o ExperienceLines(Tail(exps))

\* The Industry and AWS Usage lines taken from the spreadsheet row.
CsvLines(csv) ==
    (IF Truthy(csv.industry)
     THEN <<Line("Industry", <<csv.industry>>, <<"Industry:", " ">> \o csv.industry)>>
     ELSE <<>>)
    \o
    (IF Truthy(csv.aws) /\ HasConfirmed(csv.aws)
     THEN <<Line("AWS Usage", <<csv.aws>>, <<"AWS Usage:", " ">> \o csv.aws)>>
     ELSE <<>>)

\* AIEmailGenerator.format_profile_for_ai (ai_email_generator.py)
FormatProfileForAI(person, csv) ==
    LET name == Get(person.name, IF csv.present THEN csv.first ELSE <<>>)
        title == Get(person.job_title, IF csv.present THEN csv.title ELSE <<>>)
        company == Get(person.company, IF csv.present THEN csv.company ELSE <<>>)
    IN <<NameLine(name), RoleLine(title, company)>>
       \o (IF Truthy(person.about)
           THEN <<Line("About", <<person.about>>, <<"About:", " ">> \o person.about)>>
           ELSE <<>>)
       \o (IF person.recent_posts # <<>>
           THEN <<Line("Posts header", <<>>, <<"Recent LinkedIn Posts:">>)>>
                \o PostLines(person.recent_posts, 1)
           ELSE <<>>)
       \o (IF person.experiences # <<>>
           THEN <<Line("Experience header", <<>>, <<"Recent Experience:">>)>>
                \o ExperienceLines(person.experiences)
           ELSE <<>>)
       \o (IF csv.present THEN CsvLines(csv) ELSE <<>>)

\* AIEmailGenerator.format_profile_info (ai_gmail_outbound.py)
FormatProfileInfo(person, csv) ==
    LET name == Get(person.name, csv.first)
        title == Get(person.job_title, csv.title)
        company == Get(person.company, csv.company)
    IN <<NameLine(name), RoleLine(title, company)>>
       \o (IF Truthy(person.about)
           THEN <<Line("About", <<person.about>>,
                       <<"About:", " ">> \o TruncChars(person.about, 300))>>
           ELSE <<>>)
       \o (IF person.experiences # <<>>
           THEN <<Line("Experience header", <<>>, <<"Recent Experience:">>)>>
                \o ExperienceLines(Slice(person.experiences, 1, 2))
           ELSE <<>>)
       \o (IF Truthy(person.recent_activity)
           THEN <<Line("Recent Post", <<person.recent_activity>>,
                       <<"Recent Post:", " ">>
                         \o TruncChars(person.recent_activity, 200))>>
           ELSE <<>>)
       \o CsvLines(csv)

\* "\n".join(profile_info)
JoinLines(lines) ==
    JoinWith([i \in 1..Len(lines) |-> lines[i].text], <<"\n">>)

AtSep == <<" ", "at", " ">>

\* The for loop of generate_fallback_email over the lines of profile_info:
\* the role, company and first post it ends with.  The gmail generator has
\* no "Post 1:" branch.
RECURSIVE ParseProfile(_, _, _)
ParseProfile(variant, lines, acc) ==
    IF lines = <<>> THEN acc
    ELSE LET line == Head(lines)
             role_info == Strip(RemoveTok(line, "Role:"))
             next ==
               IF StartsWith(line, <<"Role:">>)
               THEN IF Contains(role_info, AtSep)
                    THEN [acc EXCEPT !.role = SplitOnce(role_info, AtSep)[1],
                                     !.company = SplitOnce(role_info, AtSep)[2]]
                    ELSE [acc EXCEPT !.role = role_info]
               ELSE IF variant = "shared" /\ StartsWith(line, <<"Post 1:">>)
               THEN [acc EXCEPT !.recent_post =
                        TruncChars(Strip(RemoveTok(line, "Post 1:")), 100)]
               ELSE acc
         IN ParseProfile(variant, Tail(lines), next)

ParsedProfile(variant, profile_info) ==
    ParseProfile(variant, SplitOn(profile_info, "\n"),
                 [role |-> <<>>, company |-> <<>>, recent_post |-> <<>>])

\* The signature block shared by the templates (sender identity comes from
\* the environment and is fixed during a run).
Signature ==
    <<"<p>", "SENDER_NAME", "<br>", "\n", "SENDER_TITLE", "<br>", "\n",
      "SENDER_COMPANY", "SENDER_COMPANY_URL", "<br>", "\n",
      "SENDER_LINKEDIN", "<br>", "\n", "SENDER_PHONE", "<br>", "\n",
      "101 Montgomery Street", "<br>", "\n", "San Francisco, CA 94104",
      "</p>">>

Blank == <<"\n", "\n">>

\* What a generator call hands back: a text, or an exception that leaves it.
Returned(source, text, role, company) ==
    [kind |-> "returned", source |-> source, text |-> text,
     role |-> role, company |-> company]

Raised(e) ==
    [kind |-> "raised", source |-> e, text |-> <<>>, role |-> <<>>,
     company |-> <<>>]

NoGenResult ==
    [kind |-> "none", source |-> "none", text |-> <<>>, role |-> <<>>,
     company |-> <<>>]

\* AIEmailGenerator.generate_fallback_email (ai_email_generator.py)
SharedFallbackEmail(profile_info, first_name) ==
    LET p == ParsedProfile("shared", profile_info)
        post_reference ==
          IF p.recent_post # <<>>
          THEN <<"<p>", "I saw your recent LinkedIn post about", " ">>
               \o TruncChars(p.recent_post, 50)
               \o <<"...", " ", "and it really resonated with me.", "</p>">>
          ELSE <<>>
        text ==
          <<"Subject: ", "Your recent LinkedIn post caught my attention">>
          \o Blank \o <<"<p>", "Hi", " ">> \o Fmt(first_name) \o <<",", "</p>">>
          \o Blank \o post_reference
          \o Blank \o <<"<p>", "Your role as", " ">> \o p.role \o AtSep
          \o p.company \o <<" ", "caught my attention", "</p>">>
          \o Blank \o <<"<p>", "At", " ", "SENDER_COMPANY", " ",
                        "we would love to support", " ">>
          \o p.company \o <<"'s growth.", "</p>">>
          \o Blank \o <<"<p>", "Would you have 15 minutes for a quick call?", "</p>">>
          \o Blank \o <<"<p>", "Thanks,", "</p>">>
          \o Blank \o Signature
    IN Returned("fallback", text, p.role, p.company)

\* The three subject_options of the gmail fallback; random.choice picks one.
GmailSubject(k, first_name, company) ==
    CASE k = 1 -> <<"AWS optimization opportunity for", " ">> \o Fmt(first_name)
      [] k = 2 -> <<"Exploring AWS optimization with", " ">> \o company
      [] OTHER -> <<"Quick AWS discussion for", " ">> \o Fmt(first_name)

\* AIEmailGenerator.generate_fallback_email (ai_gmail_outbound.py), with
\* subject option k.
GmailFallbackEmail(profile_info, first_name, k) ==
    LET p == ParsedProfile("gmail", profile_info)
        text ==
          <<"Subject: ">> \o GmailSubject(k, first_name, p.company)
          \o Blank \o <<"<!DOCTYPE html>", "\n", "<html>", "\n", "<head>", "\n",
                        "<style>", "</style>", "\n", "</head>", "\n", "<body>", "\n">>
          \o <<" ", "<p>", "Hi", " ">> \o Fmt(first_name) \o <<",", "</p>", "\n">>
          \o <<" ", "\n">>
          \o <<" ", "<p>", "I noticed your role as", " ">> \o p.role \o AtSep
          \o p.company \o <<" ", "and thought you might be interested", "</p>", "\n">>
          \o <<" ", "\n">>
          \o <<" ", "<p>", "At", " ", "SENDER_COMPANY", " ",
               "we've helped companies reduce cloud costs", "</p>", "\n">>
          \o <<" ", "\n">>
          \o <<" ", "<p>", "Would you have 15 minutes for a quick call?", "</p>", "\n">>
          \o <<" ", "\n">>
          \o <<" ", "<div class=\"signature\">", "\n">>
          \o <<" ", "<p>", "Thanks,", "</p>", "\n", " ">>
          \o Signature
          \o <<"\n", " ", "</div>", "\n", "</body>", "\n", "</html>">>
    IN Returned("fallback", text, p.role, p.company)

\* str.split()[0]: the first run of tokens that are not white space, <<>>
\* when there is none (where Python raises IndexError).
RECURSIVE FirstWord(_)
FirstWord(s) ==
    IF s = <<>> THEN <<>>
    ELSE IF IsSpace(Head(s)) THEN FirstWord(Tail(s))
    ELSE IF Len(s) = 1 \/ IsSpace(s[2]) THEN <<Head(s)>>
    ELSE <<Head(s)>> \o FirstWord(Tail(s))

\* contact_name.split()[0] raises: a name that is true but holds only white
\* space.
FirstNameRaises(contact_name) ==
    Truthy(contact_name) /\ FirstWord(contact_name) = <<>>

\* AIWebsiteEmailGenerator.generate_fallback_email
WebsiteFallbackEmail(site, contact_name) ==
    IF FirstNameRaises(contact_name) THEN Raised("IndexError")
    ELSE
    LET first_name == IF Truthy(contact_name) THEN FirstWord(contact_name)
                      ELSE <<"there">>
        company_name == site.title
        tech_mention ==
          IF site.technologies # <<>>
          THEN <<" ", "I noticed you're using", " ", site.technologies[1], " ",
                 "- we have extensive experience.">>
          ELSE <<>>
        text ==
          <<"Subject: ", "Technology optimization opportunity for", " ">>
          \o company_name
          \o Blank \o <<"<p>", "Hi", " ">> \o first_name \o <<",", "</p>">>
          \o Blank \o <<"<p>", "I came across", " ">> \o company_name
          \o <<"'s website and was impressed by your", " ">>
          \o (IF site.description # <<>> THEN TruncChars(site.description, 100)
              ELSE <<"business approach">>)
          \o <<".">> \o tech_mention \o <<"</p>">>
          \o Blank \o <<"<p>", "At", " ", "SENDER_COMPANY", " ",
                        "we help companies optimize.", "</p>">>
          \o Blank \o <<"<p>", "Thanks,", "</p>">>
          \o Blank \o Signature
    IN Returned("fallback", text, <<>>, company_name)

\* Texts the generation endpoint may answer with.
AITexts ==
    {<<"Subject: ", "Hello", "\n", "\n", "<p>", "Body", "</p>">>,
     <<"\n", "Subject: ", "Hello", "\n", "<p>", "Body", "</p>", "\n">>}

\* How a call to the endpoint ends: it raises, its answer lacks
\* output.message.content[0].text, or it gives a text.
AIOutcomes == {"call_fails", "malformed", "ok"}

\* except Exception: return self.generate_fallback_email(...): the call
\* results in whatever the fallback generator does.
OnGenerationFailure(fallback) == fallback

NoPerson ==
    [name |-> Absent, job_title |-> Absent, company |-> Absent,
     about |-> <<>>, recent_posts |-> <<>>, experiences |-> <<>>,
     recent_activity |-> Absent]

NoSite == [title |-> <<>>, description |-> <<>>, technologies |-> <<>>]

Persons ==
    {[name |-> n, job_title |-> t, company |-> c, about |-> x.about,
      recent_posts |-> x.recent_posts, experiences |-> x.experiences,
      recent_activity |-> x.recent_activity] :
        n \in {Absent, <<"Jane">>}, t \in TitleValues, c \in CompanyValues,
        x \in {PlainExtras, RichExtras}}

\* website_info as scrape_website builds it (every key present).
Sites ==
    [title : {<<>>, <<"Acme">>, <<"<p>">>},
     description : {<<>>, <<"cloud">>},
     technologies : {<<>>, <<"AWS">>}]

GenIdle ==
    /\ g_variant = "none"
    /\ g_pc = "idle"
    /\ g_person = NoPerson
    /\ g_csv = NoCsv
    /\ g_first = <<>>
    /\ g_site = NoSite
    /\ g_lines = <<>>
    /\ g_profile_info = <<>>
    /\ g_result = NoGenResult

GenInit ==
    /\ g_variant \in {"shared", "gmail", "website"}
    /\ g_pc = "start"
    /\ IF g_variant = "website"
          THEN /\ g_person = NoPerson
               /\ g_csv = NoCsv
               /\ g_first \in ContactNames \cup {Null}
               /\ g_site \in Sites
          ELSE /\ g_person \in Persons
               /\ g_csv \in (IF g_variant = "shared" THEN {NoCsv, FullCsv}
                             ELSE {EmptyCsv, FullCsv})
               /\ g_first \in FirstNames
               /\ g_site = NoSite
    /\ g_lines = <<>>
    /\ g_profile_info = <<>>
    /\ g_result = NoGenResult

\* format_profile_for_ai(person_data, csv_data)
FormatForAI ==
    /\ g_pc = "start"
    /\ g_variant = "shared"
    /\ g_lines' = FormatProfileForAI(g_person, g_csv)
    /\ g_profile_info' = JoinLines(g_lines')
    /\ g_pc' = "formatted"
    /\ UNCHANGED <<g_variant, g_person, g_csv, g_first, g_site, g_result>>
    /\ UNCHANGED <<sendVars, scrapeVars, batchVars, webVars, siteVars, driverVars, cacheVars, fallbackVars,
                   runVars>>

\* format_profile_info(person_data, csv_data)
FormatInfo ==
    /\ g_pc = "start"
    /\ g_variant = "gmail"
    /\ g_lines' = FormatProfileInfo(g_person, g_csv)
    /\ g_profile_info' = JoinLines(g_lines')
    /\ g_pc' = "formatted"
    /\ UNCHANGED <<g_variant, g_person, g_csv, g_first, g_site, g_result>>
    /\ UNCHANGED <<sendVars, scrapeVars, batchVars, webVars, siteVars, driverVars, cacheVars, fallbackVars,
                   runVars>>

\* AIEmailGenerator.generate_ai_email (ai_email_generator.py)
GenerateAIEmail ==
    /\ g_pc = "formatted"
    /\ g_variant = "shared"
    /\ \E has_bedrock \in BOOLEAN, outcome \in AIOutcomes :
         IF ~has_bedrock
         THEN g_result' = SharedFallbackEmail(g_profile_info, g_first)
         ELSE IF outcome = "ok"
         THEN \E t \in AITexts :
                g_result' = Returned("ai", Strip(t), <<>>, <<>>)
         ELSE g_result' = OnGenerationFailure(
                              SharedFallbackEmail(g_profile_info, g_first))
    /\ g_pc' = "done"
    /\ UNCHANGED <<g_variant, g_person, g_csv, g_first, g_site, g_lines,
                   g_profile_info>>
    /\ UNCHANGED <<sendVars, scrapeVars, batchVars, webVars, siteVars, driverVars, cacheVars, fallbackVars,
                   runVars>>

\* AIEmailGenerator.generate_email_with_ai (ai_gmail_outbound.py)
GenerateEmailWithAI ==
    /\ g_pc = "formatted"
    /\ g_variant = "gmail"
    /\ \E has_bedrock \in BOOLEAN, outcome \in AIOutcomes :
         IF ~has_bedrock
         THEN \E k \in 1..3 :
                g_result' = GmailFallbackEmail(g_profile_info, g_first, k)
         ELSE IF outcome = "ok"
         THEN \E t \in AITexts :
                g_result' = Returned("ai", Strip(t), <<>>, <<>>)
         ELSE \E k \in 1..3 :
                g_result' = OnGenerationFailure(
                                GmailFallbackEmail(g_profile_info, g_first, k))
    /\ g_pc' = "done"
    /\ UNCHANGED <<g_variant, g_person, g_csv, g_first, g_site, g_lines,
                   g_profile_info>>
    /\ UNCHANGED <<sendVars, scrapeVars, batchVars, webVars, siteVars, driverVars, cacheVars, fallbackVars,
                   runVars>>

\* AIWebsiteEmailGenerator.generate_ai_email: the import of boto3, the
\* first-name split and the endpoint call are all inside the try block; the
\* first-name split comes before the call.
WebsiteGenerateAIEmail ==
    /\ g_pc = "start"
    /\ g_variant = "website"
    /\ \E has_bedrock \in BOOLEAN, outcome \in AIOutcomes :
         IF ~has_bedrock \/ FirstNameRaises(g_first) \/ outcome # "ok"
         THEN g_result' = OnGenerationFailure(
                              WebsiteFallbackEmail(g_site, g_first))
         ELSE \E t \in AITexts : g_result' = Returned("ai", t, <<>>, <<>>)
    /\ g_pc' = "done"
    /\ UNCHANGED <<g_variant, g_person, g_csv, g_first, g_site, g_lines,
                   g_profile_info>>
    /\ UNCHANGED <<sendVars, scrapeVars, batchVars, webVars, siteVars, driverVars, cacheVars, fallbackVars,
                   runVars>>

GenNext ==
    \/ FormatForAI
    \/ FormatInfo
    \/ GenerateAIEmail
    \/ GenerateEmailWithAI
    \/ WebsiteGenerateAIEmail

-----------------------------------------------------------------------------
(* The batch report: generate_ai_gmail_outbound (ai_gmail_outbound.py)     *)
(* writes it, send_ai_batch of the send-only driver reads it and sends     *)

\* Rows of the spreadsheet a run may hold at most.
MaxRows == 2

\* limit=10, the default of generate_ai_gmail_outbound.
DefaultLimit == 10

ProfileUrl ==
    <<"https:", "/", "/", "www.linkedin.com", "/", "in", "/", "jane", "/">>

Address == <<"jane@acme.com">>

\* Spreadsheet rows: a profile URL, a text without any "/", an empty URL
\* cell, and a row without an address.
BatchRows ==
    {[url |-> ProfileUrl, email |-> Address, csv |-> FullCsv],
     [url |-> <<"not-a-url">>, email |-> Address, csv |-> FullCsv],
     [url |-> <<" ">>, email |-> Address, csv |-> EmptyCsv],
     [url |-> ProfileUrl, email |-> <<>>, csv |-> FullCsv]}

\* row.get("Person Linkedin Url", "").strip() and row.get("Email", "").strip()
ValidRow(row) == Strip(row.url) # <<>> /\ Strip(row.email) # <<>>

Min(a, b) == IF a < b THEN a ELSE b

\* random.sample(valid_rows, n): n rows at distinct positions, in any order.
Samples(rows, n) ==
    LET valid == {i \in 1..Len(rows) : ValidRow(rows[i])}
    IN {[k \in 1..n |-> rows[f[k]]] :
          f \in {g \in [1..n -> valid] :
                   \A a, c \in 1..n : a # c => g[a] # g[c]}}

\* What Person(linkedin_url, ...) or a cached profile gives.
BatchPersons ==
    {[name |-> <<"Jane">>, job_title |-> <<"CEO">>, company |-> <<"Acme">>,
      about |-> <<>>, recent_posts |-> <<>>, experiences |-> <<>>,
      recent_activity |-> <<>>],
     [name |-> Null, job_title |-> Null, company |-> Null,
      about |-> <<>>, recent_posts |-> <<>>, experiences |-> <<>>,
      recent_activity |-> <<>>]}

\* Texts the generation endpoint may answer with during a batch.
BatchAITexts ==
    {<<"Subject: ", "Hello", "\n", "\n", "<p>", "Body", "</p>", "\n">>,
     <<"Subject: ", "Re:", " ", "Subject: ", "Hello", "\n", "\n",
       "<p>", "Say \"hi\"", "</p>">>}

\* linkedin_url.split('/')[-2] raises IndexError when the URL has no "/".
CacheKeyRaises(url) == Len(SplitOn(url, "/")) < 2

\* The emails generate_email_with_ai may return for a profile text.
EmailsWithAI(profile_info, first_name) ==
    {GmailFallbackEmail(profile_info, first_name, k).text : k \in 1..3}
    \cup {Strip(t) : t \in BatchAITexts}

\* json.dump writes a string token: newline, quote and backslash escaped.
JsonEscape(t) ==
    CASE t = "\n" -> "\\n"
      [] t = "<div class=\"signature\">" -> "<div class=\\\"signature\\\">"
      [] t = "Say \"hi\"" -> "Say \\\"hi\\\""
      [] OTHER -> t

\* json.load reads it back.
JsonUnescape(t) ==
    CASE t = "\\n" -> "\n"
      [] t = "<div class=\\\"signature\\\">" -> "<div class=\"signature\">"
      [] t = "Say \\\"hi\\\"" -> "Say \"hi\""
      [] OTHER -> t

JsonDumpText(text) == [i \in 1..Len(text) |-> JsonEscape(text[i])]

JsonLoadText(text) == [i \in 1..Len(text) |-> JsonUnescape(text[i])]

\* json.dump(results, f, indent=2, ensure_ascii=False)
JsonDump(results) ==
    [n \in 1..Len(results) |->
        [results[n] EXCEPT !.email = JsonDumpText(@),
                           !.ai_generated_email = JsonDumpText(@)]]

\* A loader that would hand the entries over last to first.
JsonLoad_Reversed(file) ==
    [n \in 1..Len(file) |->
        [file[Len(file) + 1 - n] EXCEPT !.email = JsonLoadText(@),
                                        !.ai_generated_email = JsonLoadText(@)]]

\* json.load(f)
JsonLoad(file) ==
    [n \in 1..Len(file) |->
        [file[n] EXCEPT !.email = JsonLoadText(@),
                        !.ai_generated_email = JsonLoadText(@)]]

NoFile == << [row_number |-> 0, email |-> <<>>, linkedin_data |-> NoPerson,
              ai_generated_email |-> <<"<nofile>">>] >>

\* The text from the start of line k on: "\n".join(lines[k-1:]).
FromLine(text, k) ==
    LET at == {i \in 1..Len(text) : text[i] = "\n"}
        start == IF k = 1 THEN 1
                 ELSE IF k - 1 > Cardinality(at) THEN Len(text) + 1
                 ELSE 1 + CHOOSE i \in at :
                            Cardinality({j \in at : j < i}) = k - 2
    IN Slice(text, start, Len(text))

\* lines[0].replace("Subject: ", "")
ParsedSubject(email_content) ==
    RemoveTok(SplitOn(email_content, "\n")[1], "Subject: ")

\* body_start: the first line after the subject line that is not blank.
BodyStart(lines) ==
    LET full == {k \in 2..Len(lines) : Strip(lines[k]) # <<>>}
    IN IF full = {} THEN Len(lines) + 1
       ELSE CHOOSE k \in full : \A m \in full : k <= m

ParsedBody(email_content) ==
    FromLine(email_content, BodyStart(SplitOn(email_content, "\n")))

NoCsvFile == [found |-> FALSE, rows |-> <<>>]

\* await asyncio.sleep(3) of send_ai_batch and send_test_emails, and
\* await asyncio.sleep(2) of process_website_contacts.
BatchDelay == 3

WebDelay == 2

\* An entry of the timeline of a run: a delivery submission or a sleep.
Event(ev, secs) == [ev |-> ev, secs |-> secs]

\* A loop that would sleep only after a delivery that succeeded.
Pause_OnSuccess(outcome, secs) ==
    IF outcome = "delivered" THEN <<Event("sleep", secs)>> ELSE <<>>

\* The sleep at the end of a turn: it is after the try/except of the turn,
\* so it is reached whatever the delivery returned or raised.
Pause(outcome, secs) == <<Event("sleep", secs)>>

BatchIdle ==
    /\ b_pc = "idle"
    /\ b_csv = NoCsvFile
    /\ b_limit = 0
    /\ b_creds = FALSE
    /\ b_selected = <<>>
    /\ b_i = 0
    /\ b_results = <<>>
    /\ b_file = NoFile
    /\ b_contacts = <<>>
    /\ b_j = 0
    /\ b_sent = <<>>
    /\ b_sent_emails = 0
    /\ b_errors = 0
    /\ b_log = <<>>

BatchInit ==
    /\ b_pc = "start"
    /\ b_csv \in {NoCsvFile}
                 \cup [found : {TRUE}, rows : SeqsUpTo(BatchRows, MaxRows)]
    /\ b_limit \in {1, DefaultLimit}
    /\ b_creds \in BOOLEAN
    /\ b_selected = <<>>
    /\ b_i = 0
    /\ b_results = <<>>
    /\ b_file = NoFile
    /\ b_contacts = <<>>
    /\ b_j = 0
    /\ b_sent = <<>>
    /\ b_sent_emails = 0
    /\ b_errors = 0
    /\ b_log = <<>>

\* generate_ai_gmail_outbound up to the loop: no spreadsheet found returns
\* without writing a report; otherwise the valid rows are sampled.
BatchOpen ==
    /\ b_pc = "start"
    /\ IF ~b_csv.found
          THEN /\ b_pc' = "generated"
               /\ UNCHANGED <<b_selected, b_i>>
          ELSE /\ LET nvalid == Cardinality({i \in 1..Len(b_csv.rows) :
                                                ValidRow(b_csv.rows[i])})
                  IN b_selected' \in Samples(b_csv.rows, Min(b_limit, nvalid))
               /\ b_i' = 1
               /\ b_pc' = "loop"
    /\ UNCHANGED <<b_csv, b_limit, b_creds, b_results, b_file, b_contacts,
                   b_j, b_sent, b_sent_emails, b_errors,
                   b_log>>
    /\ UNCHANGED <<sendVars, scrapeVars, genVars, webVars, siteVars, driverVars, cacheVars, fallbackVars,
                   runVars>>

\* The report entry of contact b_i built from person_data and ai_email.
ContactResult(row, person_data, ai_email) ==
    [row_number |-> b_i, email |-> row.email, linkedin_data |-> person_data,
     ai_generated_email |-> ai_email]

\* One iteration of the for loop over selected_rows: the cache key, the
\* cached or scraped profile, the formatter and the generator, all inside
\* one try whose handler moves on to the next contact.
BatchContact ==
    /\ b_pc = "loop"
    /\ b_i <= Len(b_selected)
    /\ LET row == b_selected[b_i] IN
       \E cached \in BOOLEAN, person_raises \in BOOLEAN,
          person_data \in BatchPersons :
         IF CacheKeyRaises(Strip(row.url)) \/ (~cached /\ person_raises)
         THEN UNCHANGED b_results
         ELSE \E ai_email \in EmailsWithAI(
                      JoinLines(FormatProfileInfo(person_data, row.csv)),
                      row.csv.first) :
                b_results' = Append(b_results,
                                    ContactResult(row, person_data, ai_email))
    /\ b_i' = b_i + 1
    /\ UNCHANGED <<b_pc, b_csv, b_limit, b_creds, b_selected, b_file,
                   b_contacts, b_j, b_sent, b_sent_emails, b_errors,
                   b_log>>
    /\ UNCHANGED <<sendVars, scrapeVars, genVars, webVars, siteVars, driverVars, cacheVars, fallbackVars,
                   runVars>>

\* After the loop: json.dump(results, f, ...).
BatchSave ==
    /\ b_pc = "loop"
    /\ b_i > Len(b_selected)
    /\ b_file' = JsonDump(b_results)
    /\ b_pc' = "generated"
    /\ UNCHANGED <<b_csv, b_limit, b_creds, b_selected, b_i, b_results,
                   b_contacts, b_j, b_sent, b_sent_emails, b_errors,
                   b_log>>
    /\ UNCHANGED <<sendVars, scrapeVars, genVars, webVars, siteVars, driverVars, cacheVars, fallbackVars,
                   runVars>>

\* send_ai_batch up to the loop: a missing report or an empty one returns;
\* CCAPIClient() raises ValueError when the credentials are not set.
SendBatchOpen ==
    /\ b_pc = "generated"
    /\ IF b_file = NoFile
          THEN /\ b_pc' = "returned"
               /\ UNCHANGED <<b_contacts, b_j>>
          ELSE /\ b_contacts' = JsonLoad(b_file)
               /\ IF b_contacts' = <<>> THEN /\ b_pc' = "returned"
                                             /\ UNCHANGED b_j
                  ELSE IF ~b_creds THEN /\ b_pc' = "raised"
                                        /\ UNCHANGED b_j
                  ELSE /\ b_pc' = "sending"
                       /\ b_j' = 1
    /\ UNCHANGED <<b_csv, b_limit, b_creds, b_selected, b_i, b_results,
                   b_file, b_sent, b_sent_emails, b_errors,
                   b_log>>
    /\ UNCHANGED <<sendVars, scrapeVars, genVars, webVars, siteVars, driverVars, cacheVars, fallbackVars,
                   runVars>>

\* A loop that would stay on a contact whose delivery failed.
NextContact_Retry(j, success) == IF success THEN j + 1 ELSE j

\* The for loop over enumerate(contacts, 1) moves to the next contact
\* whatever the delivery returned; the handler of the iteration has no retry.
NextContact(j, success) == j + 1

\* What one turn of the loop ends in: send_ai_email returned success,
\* returned a failure, or an exception reached the handler of the turn.
Outcomes == {"delivered", "rejected", "raised"}

\* A handler that would drop the exception without recording it.
ErrorsAfter_Swallowed(errors, outcome) ==
    IF outcome = "rejected" THEN errors + 1 ELSE errors

\* errors.append(...) in the else branch and in the except handler.
ErrorsAfter(errors, outcome) ==
    IF outcome = "delivered" THEN errors ELSE errors + 1

\* One iteration of the for loop over contacts: the subject and body are
\* parsed out of the email text and handed to send_ai_email, whose result
\* is counted.
SendBatchContact ==
    /\ b_pc = "sending"
    /\ b_j <= Len(b_contacts)
    /\ LET contact == b_contacts[b_j] IN
         b_sent' = Append(b_sent,
                     [row_number |-> contact.row_number,
                      to_email |-> contact.email,
                      subject |-> ParsedSubject(contact.ai_generated_email),
                      message |-> ParsedBody(contact.ai_generated_email)])
    /\ \E outcome \in Outcomes :
         LET success == outcome = "delivered" IN
         /\ b_sent_emails' = IF success THEN b_sent_emails + 1
                                        ELSE b_sent_emails
         /\ b_errors' = ErrorsAfter(b_errors, outcome)
         /\ b_j' = NextContact(b_j, success)
         /\ b_log' = b_log \o <<Event("submit", 0)>>
                          \o Pause(outcome, BatchDelay)
    /\ UNCHANGED <<b_pc, b_csv, b_limit, b_creds, b_selected, b_i, b_results,
                   b_file, b_contacts>>
    /\ UNCHANGED <<sendVars, scrapeVars, genVars, webVars, siteVars, driverVars, cacheVars, fallbackVars,
                   runVars>>

\* After the loop: the summary is printed and send_ai_batch returns.
SendBatchFinish ==
    /\ b_pc = "sending"
    /\ b_j > Len(b_contacts)
    /\ b_pc' = "returned"
    /\ UNCHANGED <<b_csv, b_limit, b_creds, b_selected, b_i, b_results,
                   b_file, b_contacts, b_j, b_sent, b_sent_emails, b_errors,
                   b_log>>
    /\ UNCHANGED <<sendVars, scrapeVars, genVars, webVars, siteVars, driverVars, cacheVars, fallbackVars,
                   runVars>>

BatchNext ==
    \/ BatchOpen
    \/ BatchContact
    \/ BatchSave
    \/ SendBatchOpen
    \/ SendBatchContact
    \/ SendBatchFinish

-----------------------------------------------------------------------------
(* The website driver: process_website_contacts (ai_website_outbound.py)   *)

\* Rows of the contact spreadsheet a run may hold at most.
MaxWebContacts == 2

\* contacts[:5]
WebLimit == 5

WebsiteUrl == <<"acme.com">>

\* Spreadsheet rows: a full row, a row whose name is only white space, a
\* row of a sheet without an email column, a row with empty website and
\* email cells, one with a white-space website cell and no email, and one
\* with a website but no email.
WebContacts ==
    {[website |-> WebsiteUrl, name |-> <<"Jane", " ", "Doe">>, email |-> Address],
     [website |-> WebsiteUrl, name |-> <<" ">>, email |-> Address],
     [website |-> WebsiteUrl, name |-> <<"Jane", " ", "Doe">>, email |-> Absent],
     [website |-> <<>>, name |-> <<"Jane", " ", "Doe">>, email |-> <<>>],
     [website |-> <<" ">>, name |-> <<"Jane", " ", "Doe">>, email |-> <<>>],
     [website |-> WebsiteUrl, name |-> <<"Jane", " ", "Doe">>, email |-> <<>>]}

\* s[:n] for a list.
Take(s, n) == Slice(s, 1, Min(n, Len(s)))

\* What scrape_website returns: the scraped page, or (when the page cannot
\* be loaded) _create_fallback_website_info.
ScrapedSites ==
    {[title |-> <<"Acme">>, description |-> <<"cloud">>,
      technologies |-> <<"AWS">>],
     [title |-> <<"Company", " ", "Website">>,
      description |-> <<"Website information not available due to access restrictions.">>,
      technologies |-> <<>>]}

\* Texts the generation endpoint may answer with: an email, or nothing.
WebAITexts ==
    {<<"Subject: ", "Hello", "\n", "\n", "<p>", "Body", "</p>", "\n",
       "\n", "<p>", "Bye", "</p>">>,
     <<>>}

\* What AIWebsiteEmailGenerator.generate_ai_email may do for a contact.
WebsiteEmailResults(site, contact_name) ==
    {OnGenerationFailure(WebsiteFallbackEmail(site, contact_name))}
    \cup (IF FirstNameRaises(contact_name) THEN {}
          ELSE {Returned("ai", t, <<>>, <<>>) : t \in WebAITexts})

\* lines = email_content.split('\n', 1);
\* subject = lines[0].replace('Subject: ', '').strip()
WebSubject(email_content) ==
    Strip(RemoveTok(SplitOn(email_content, "\n")[1], "Subject: "))

\* content = lines[1].strip() if len(lines) > 1 else email_content
WebContent(email_content) ==
    IF Contains(email_content, <<"\n">>)
    THEN Strip(SplitOnce(email_content, <<"\n">>)[2])
    ELSE email_content

\* How one send_email_via_ccai call ends once the credentials are there:
\* an HTTP status, or 0 for a transport exception.
WebDeliveries == {200, 201, 500, 0}

\* What send_email_via_ccai made of the response: True on 200, False on
\* another status, False after an exception (no status).
WebOutcome(delivery) ==
    IF ViaSuccessStatus(delivery) THEN "delivered"
    ELSE IF delivery = 0 THEN "raised"
    ELSE "rejected"

WebIdle ==
    /\ w_pc = "idle"
    /\ w_creds = FALSE
    /\ w_contacts = <<>>
    /\ w_i = 0
    /\ w_scrapes = <<>>
    /\ w_generated = <<>>
    /\ w_requests = <<>>
    /\ w_successful = 0
    /\ w_exc = "none"
    /\ w_log = <<>>

WebInit ==
    /\ w_pc = "loop"
    /\ w_creds \in BOOLEAN
    /\ w_contacts \in SeqsUpTo(WebContacts, MaxWebContacts)
    /\ w_i = 1
    /\ w_scrapes = <<>>
    /\ w_generated = <<>>
    /\ w_requests = <<>>
    /\ w_successful = 0
    /\ w_exc = "none"
    /\ w_log = <<>>

\* The request send_email_via_ccai posts for contact w_i.
WebRequest(contact, email_content, delivery) ==
    [contact |-> w_i, to_email |-> contact.email,
     subject |-> WebSubject(email_content),
     content |-> WebContent(email_content),
     status |-> delivery]

\* One iteration of the for loop over contacts[:5]: the website test, the
\* scrape, the generation, the parse and the delivery.  The loop is inside
\* one try: an exception in an iteration ends the loop.
WebContact ==
    /\ w_pc = "loop"
    /\ w_i <= Len(Take(w_contacts, WebLimit))
    /\ LET contact == Take(w_contacts, WebLimit)[w_i] IN
       IF ~Truthy(contact.website)
       THEN /\ w_i' = w_i + 1
            /\ UNCHANGED <<w_pc, w_scrapes, w_generated, w_requests,
                           w_successful, w_exc,
                           w_log>>
       ELSE
         \E site \in ScrapedSites :
         \E r \in WebsiteEmailResults(site, Get(contact.name, <<>>)) :
           /\ w_scrapes' = Append(w_scrapes, w_i)
           /\ w_generated' = Append(w_generated, w_i)
           /\ IF r.kind = "raised"
              THEN /\ w_exc' = r.source
                   /\ w_pc' = "returned"
                   /\ UNCHANGED <<w_i, w_requests, w_successful,
                                   w_log>>
              ELSE IF r.text = <<>>
              THEN /\ w_i' = w_i + 1
                   /\ UNCHANGED <<w_pc, w_requests, w_successful, w_exc,
                           w_log>>
              ELSE IF contact.email = Absent
              THEN /\ w_exc' = "KeyError"
                   /\ w_pc' = "returned"
                   /\ UNCHANGED <<w_i, w_requests, w_successful,
                                   w_log>>
              ELSE IF ~w_creds
              THEN /\ w_i' = w_i + 1
                   /\ w_log' = w_log \o Pause("rejected", WebDelay)
                   /\ UNCHANGED <<w_pc, w_requests, w_successful, w_exc>>
              ELSE \E delivery \in WebDeliveries :
                     /\ w_requests' = Append(w_requests,
                                         WebRequest(contact, r.text, delivery))
                     /\ w_successful' =
                          IF ViaSuccessStatus(delivery) THEN w_successful + 1
                          ELSE w_successful
                     /\ w_i' = w_i + 1
                     /\ w_log' = w_log \o <<Event("submit", 0)>>
                                      \o Pause(WebOutcome(delivery), WebDelay)
                     /\ UNCHANGED <<w_pc, w_exc>>
    /\ UNCHANGED <<w_creds, w_contacts>>
    /\ UNCHANGED <<sendVars, scrapeVars, genVars, batchVars, siteVars, driverVars, cacheVars, fallbackVars,
                   runVars>>

\* After the last contact: the summary, then finally: scraper.close().
WebFinish ==
    /\ w_pc = "loop"
    /\ w_i > Len(Take(w_contacts, WebLimit))
    /\ w_pc' = "returned"
    /\ UNCHANGED <<w_creds, w_contacts, w_i, w_scrapes, w_generated,
                   w_requests, w_successful, w_exc,
                           w_log>>
    /\ UNCHANGED <<sendVars, scrapeVars, genVars, batchVars, siteVars, driverVars, cacheVars, fallbackVars,
                   runVars>>

WebNext ==
    \/ WebContact
    \/ WebFinish

-----------------------------------------------------------------------------
(* The website scraper: WebsiteScraper.scrape_website and its extractors   *)
(* (ai_website_outbound.py)                                                *)

\* A read of the page (driver.title, find_element, element.text,
\* page_source) that raises.
RaisesRead == <<"<raises>">>

\* An exception that left an extractor.
Escaped == <<"<escaped>">>

\* Characters of the texts a site may show.
SiteChars(t) ==
    CASE t = " " -> 1
      [] t = "Acme" -> 4
      [] t = "cloud" -> 5
      [] t = "Our news" -> 8
      [] t = "We launched a product" -> 21
      [] t = "We build cloud software for logistics companies worldwide" -> 57
      [] t = "A page of six hundred characters" -> 600
      [] OTHER -> 0

RECURSIVE SiteLen(_)
SiteLen(text) ==
    IF text = <<>> THEN 0 ELSE SiteChars(Head(text)) + SiteLen(Tail(text))

\* text[:n]: a text that fits is kept whole, the long one is cut.
SiteCut(text, n) ==
    IF SiteLen(text) <= n THEN text
    ELSE CASE n = 150 -> <<"first 150 characters">>
           [] n = 200 -> <<"first 200 characters">>
           [] n = 300 -> <<"first 300 characters">>
           [] OTHER -> <<"first 400 characters">>

\* An extractor without its try block.
ExtractPageTitle_Unguarded(title) ==
    IF title = RaisesRead THEN Escaped ELSE Strip(title)

\* _extract_page_title: self.driver.title.strip(), "Website" on any error.
ExtractPageTitle(title) ==
    IF title = RaisesRead THEN <<"Website">> ELSE Strip(title)

\* _extract_meta_description: the content attribute cut to 300 characters;
\* a missing element (find_element raises) or a missing attribute (None is
\* not subscriptable) gives "".
ExtractMetaDescription(meta) ==
    IF meta = RaisesRead \/ meta = Null THEN <<>> ELSE SiteCut(meta, 300)

\* The elements of one selector that are read before a read raises.
ReadBefore(elements) ==
    LET bad == {k \in 1..Len(elements) : elements[k] = RaisesRead}
    IN IF bad = {} THEN elements
       ELSE Slice(elements, 1, (CHOOSE k \in bad : \A m \in bad : k <= m) - 1)

\* if text and len(text) > 20 and len(text) < 500
ServiceText(text) ==
    Strip(text) # <<>> /\ SiteLen(Strip(text)) > 20 /\ SiteLen(Strip(text)) < 500

\* _extract_services: the first three elements of every selector; a lookup
\* or a read that raises ends that selector only.
RECURSIVE ExtractServicesFrom(_)
ExtractServicesFrom(lookups) ==
    IF lookups = <<>> THEN <<>>
    ELSE (IF Head(lookups) = RaisesLookup THEN <<>>
          ELSE LET read == SelectSeq(ReadBefore(Take(Head(lookups), 3)),
                                     ServiceText)
               IN [k \in 1..Len(read) |-> SiteCut(Strip(read[k]), 200)])
         \o ExtractServicesFrom(Tail(lookups))

ExtractServices(lookups) == Take(ExtractServicesFrom(lookups), 3)

\* _extract_about_section: the first selector whose element has more than
\* 50 characters of text, cut to 400; "" when none has.
RECURSIVE ExtractAboutSection(_)
ExtractAboutSection(lookups) ==
    IF lookups = <<>> THEN <<>>
    ELSE IF /\ Head(lookups) # RaisesRead
            /\ Strip(Head(lookups)) # <<>>
            /\ SiteLen(Strip(Head(lookups))) > 50
         THEN SiteCut(Strip(Head(lookups)), 400)
         ELSE ExtractAboutSection(Tail(lookups))

\* if headlines: ... if headline_text and len(headline_text) > 10
NewsHeadline(headline) ==
    /\ headline # NoText
    /\ Strip(headline) # <<>>
    /\ SiteLen(Strip(headline)) > 10

\* _extract_recent_news: the first headline of the first two elements of
\* every selector; an element is given by its first headline (NoText when it
\* has none).
RECURSIVE ExtractRecentNewsFrom(_)
ExtractRecentNewsFrom(lookups) ==
    IF lookups = <<>> THEN <<>>
    ELSE (IF Head(lookups) = RaisesLookup THEN <<>>
          ELSE LET read == SelectSeq(ReadBefore(Take(Head(lookups), 2)),
                                     NewsHeadline)
               IN [k \in 1..Len(read) |-> SiteCut(Strip(read[k]), 150)])
         \o ExtractRecentNewsFrom(Tail(lookups))

ExtractRecentNews(lookups) == Take(ExtractRecentNewsFrom(lookups), 2)

\* The head of tech_terms and of industry_terms, in the order of the lists.
TechTerms == <<"AWS", "Azure", "Google Cloud", "Docker", "Kubernetes", "React">>

IndustryTerms == <<"fintech", "healthcare", "e-commerce", "retail">>

\* The terms of a list found in the page source, in list order.
TermsFound(terms, present) == SelectSeq(terms, LAMBDA t : t \in present)

\* _extract_technologies: at most five terms, [] when page_source raises.
ExtractTechnologies(source) ==
    IF source.tech_raises THEN <<>>
    ELSE Take(TermsFound(TechTerms, source.terms), 5)

\* _extract_industry_keywords: at most three terms.
ExtractIndustryKeywords(source) ==
    IF source.industry_raises THEN <<>>
    ELSE Take(TermsFound(IndustryTerms, source.terms), 3)

\* _extract_contact_info: the first email and the first phone number of the
\* page source, each key present only when one was found.
ExtractContactInfo(source) ==
    IF source.contact_raises THEN [email |-> Absent, phone |-> Absent]
    ELSE [email |-> IF source.emails = <<>> THEN Absent ELSE source.emails[1],
          phone |-> IF source.phones = <<>> THEN Absent ELSE source.phones[1]]

\* _create_fallback_website_info
CreateFallbackWebsiteInfo(website_url, company_name) ==
    [url |-> website_url,
     title |-> IF company_name # <<>> THEN company_name \o <<" ", "Website">>
               ELSE <<"Company", " ", "Website">>,
     description |-> <<"Website information not available due to access restrictions.">>,
     services |-> <<>>,
     about |-> <<>>,
     recent_news |-> <<>>,
     technologies |-> <<>>,
     industry_keywords |-> <<>>,
     contact_info |-> [email |-> Absent, phone |-> Absent]]

\* if not website_url.startswith(('http://', 'https://')): prefix https://
WithProtocol(website_url) ==
    IF StartsWith(website_url, <<"http://">>)
       \/ StartsWith(website_url, <<"https://">>)
    THEN website_url
    ELSE <<"https://">> \o website_url

SiteUrls == {<<"acme.com">>, <<"http://", "acme.com">>}

SiteCompanies == {<<>>, <<"Acme">>}

ShortText == <<"Acme">>

NewsText == <<"We launched a product">>

AboutText ==
    <<" ", "We build cloud software for logistics companies worldwide", " ">>

HugeText == <<"A page of six hundred characters">>

\* What the three reads of page_source give.
PageSources ==
    {[tech_raises |-> TRUE, industry_raises |-> FALSE, contact_raises |-> FALSE,
      terms |-> {"AWS", "retail"}, emails |-> <<Address>>, phones |-> <<>>],
     [tech_raises |-> FALSE, industry_raises |-> TRUE, contact_raises |-> TRUE,
      terms |-> {"AWS", "Docker", "fintech"}, emails |-> <<Address>>,
      phones |-> <<>>],
     [tech_raises |-> FALSE, industry_raises |-> FALSE, contact_raises |-> FALSE,
      terms |-> {"AWS", "Azure", "Google Cloud", "Docker", "Kubernetes",
                 "React", "fintech", "healthcare", "e-commerce", "retail"},
      emails |-> <<>>, phones |-> <<<<"555-010-0199">>>>]}

\* The page after driver.get: the navigation raised, or what each extractor
\* finds on it.
SitePages ==
    {[nav |-> "raises", title |-> RaisesRead, meta |-> RaisesRead,
      services |-> <<>>, about |-> <<>>, news |-> <<>>,
      source |-> CHOOSE x \in PageSources : x.tech_raises]}
    \cup
    [nav : {"ok"},
     title : {RaisesRead, <<" ", "Acme", " ">>},
     meta : {RaisesRead, Null, <<"cloud">>, HugeText},
     services : {<<>>,
                 <<RaisesLookup, <<NewsText, ShortText, HugeText, AboutText>>>>,
                 <<<<AboutText, RaisesRead, NewsText>>, <<NewsText>>,
                   <<NewsText, NewsText>>>>},
     about : {<<RaisesRead>>, <<ShortText, RaisesRead, AboutText>>,
              <<RaisesRead, HugeText>>},
     news : {<<RaisesLookup>>,
             <<<<NoText, RaisesRead>>, <<NewsText, <<"Our news">>, NewsText>>>>,
             <<<<NewsText>>, <<NewsText, NewsText>>>>},
     source : PageSources]

NoSitePage == CHOOSE pg \in SitePages : pg.nav = "raises"

NoSiteInfo == [kind |-> "none", info |-> CreateFallbackWebsiteInfo(<<>>, <<>>)]

SiteIdle ==
    /\ ws_pc = "idle"
    /\ ws_url = <<>>
    /\ ws_company = <<>>
    /\ ws_page = NoSitePage
    /\ ws_result = NoSiteInfo

SiteInit ==
    /\ ws_pc = "start"
    /\ ws_url \in SiteUrls
    /\ ws_company \in SiteCompanies
    /\ ws_page = NoSitePage
    /\ ws_result = NoSiteInfo

\* The protocol prefix and self.driver.get(website_url); a raise is caught
\* by the except of scrape_website, which returns the fallback info.
SiteNavigate ==
    /\ ws_pc = "start"
    /\ ws_url' = WithProtocol(ws_url)
    /\ \E pg \in SitePages :
         /\ ws_page' = pg
         /\ IF pg.nav = "raises"
               THEN /\ ws_result' =
                          [kind |-> "fallback",
                           info |-> CreateFallbackWebsiteInfo(ws_url', ws_company)]
                    /\ ws_pc' = "done"
               ELSE /\ ws_pc' = "loaded"
                    /\ UNCHANGED ws_result
    /\ UNCHANGED ws_company
    /\ UNCHANGED <<sendVars, scrapeVars, genVars, batchVars, webVars, driverVars, cacheVars, fallbackVars,
                   runVars>>

\* The website_info dict: the eight extractors are called in turn inside the
\* try block, so an exception leaving any of them gives the fallback info.
SiteExtract ==
    /\ ws_pc = "loaded"
    /\ LET info ==
             [url |-> ws_url,
              title |-> ExtractPageTitle(ws_page.title),
              description |-> ExtractMetaDescription(ws_page.meta),
              services |-> ExtractServices(ws_page.services),
              about |-> ExtractAboutSection(ws_page.about),
              recent_news |-> ExtractRecentNews(ws_page.news),
              technologies |-> ExtractTechnologies(ws_page.source),
              industry_keywords |-> ExtractIndustryKeywords(ws_page.source),
              contact_info |-> ExtractContactInfo(ws_page.source)]
       IN ws_result' =
            IF info.title = Escaped
            THEN [kind |-> "fallback",
                  info |-> CreateFallbackWebsiteInfo(ws_url, ws_company)]
            ELSE [kind |-> "scraped", info |-> info]
    /\ ws_pc' = "done"
    /\ UNCHANGED <<ws_url, ws_company, ws_page>>
    /\ UNCHANGED <<sendVars, scrapeVars, genVars, batchVars, webVars, driverVars, cacheVars, fallbackVars,
                   runVars>>

SiteNext ==
    \/ SiteNavigate
    \/ SiteExtract

-----------------------------------------------------------------------------
(* The shared browser driver: get_or_create_driver and close_driver        *)
(* (linkedin_mcp_server/drivers/chrome.py)                                 *)

\* Calls to get_or_create_driver and close_driver in one process.
MaxDriverCalls == 5

\* _driver_instance = None
NoDriver == 0

\* The initialisation steps after webdriver.Chrome(...), in order; the last
\* three run only when LINKEDIN_SESSION_COOKIE is set.
InitSteps(cookie) ==
    IF cookie THEN <<"script", "navigate", "add_cookie", "refresh">>
    ELSE <<"script">>

\* A test that would start a browser on every call.
NeedsDriver_Always(instance) == TRUE

\* if _driver_instance is None:
NeedsDriver(instance) == instance = NoDriver

NoReturn == [id |-> NoDriver, steps |-> <<>>]

DriverIdle ==
    /\ d_pc = "idle"
    /\ d_cookie = FALSE
    /\ d_instance = NoDriver
    /\ d_steps = <<>>
    /\ d_created = 0
    /\ d_live = {}
    /\ d_calls = 0
    /\ d_returned = NoReturn

\* The module is imported: no driver yet.
DriverInit ==
    /\ d_pc = "ready"
    /\ d_cookie \in BOOLEAN
    /\ d_instance = NoDriver
    /\ d_steps = <<>>
    /\ d_created = 0
    /\ d_live = {}
    /\ d_calls = 0
    /\ d_returned = NoReturn

\* get_or_create_driver.  webdriver.Chrome(...) may raise, and then no
\* browser was started; its result is assigned to _driver_instance before
\* the initialisation steps run, any of which may raise and end the call.
GetOrCreateDriver ==
    /\ d_pc = "ready"
    /\ d_calls < MaxDriverCalls
    /\ d_calls' = d_calls + 1
    /\ IF NeedsDriver(d_instance)
          THEN \/ /\ d_returned' = NoReturn
                  /\ UNCHANGED <<d_instance, d_steps, d_created, d_live>>
               \/ \E done \in 0..Len(InitSteps(d_cookie)) :
                    /\ d_created' = d_created + 1
                    /\ d_instance' = d_created'
                    /\ d_live' = d_live \cup {d_created'}
                    /\ d_steps' = Take(InitSteps(d_cookie), done)
                    /\ d_returned' =
                         IF done = Len(InitSteps(d_cookie))
                         THEN [id |-> d_instance', steps |-> d_steps']
                         ELSE NoReturn
          ELSE /\ d_returned' = [id |-> d_instance, steps |-> d_steps]
               /\ UNCHANGED <<d_instance, d_steps, d_created, d_live>>
    /\ UNCHANGED <<d_pc, d_cookie>>
    /\ UNCHANGED <<sendVars, scrapeVars, genVars, batchVars, webVars, siteVars, cacheVars, fallbackVars,
                   runVars>>

\* close_driver: if _driver_instance: quit() and _driver_instance = None.
CloseDriver ==
    /\ d_pc = "ready"
    /\ d_calls < MaxDriverCalls
    /\ d_calls' = d_calls + 1
    /\ IF d_instance # NoDriver
          THEN /\ d_live' = d_live \ {d_instance}
               /\ d_instance' = NoDriver
               /\ d_steps' = <<>>
          ELSE UNCHANGED <<d_instance, d_steps, d_live>>
    /\ d_returned' = NoReturn
    /\ UNCHANGED <<d_pc, d_cookie, d_created>>
    /\ UNCHANGED <<sendVars, scrapeVars, genVars, batchVars, webVars, siteVars, cacheVars, fallbackVars,
                   runVars>>

DriverNext ==
    \/ GetOrCreateDriver
    \/ CloseDriver

-----------------------------------------------------------------------------
(* The profile cache of generate_ai_gmail_outbound (ai_gmail_outbound.py)  *)

\* Contacts of one run, and runs over the same directory.
MaxCacheContacts == 2

MaxRuns == 2

JaneUrl == <<"https:", "/", "/", "www.linkedin.com", "/", "in", "/", "jane">>

JoelUrl == <<"https:", "/", "/", "www.linkedin.com", "/", "in", "/", "joel">>

\* The "Person Linkedin Url" cells (already stripped): two profiles, each
\* written with and without the closing slash, and a text without any "/".
CacheUrls ==
    {JaneUrl, JaneUrl \o <<"/">>, JoelUrl, JoelUrl \o <<"/">>, <<"not-a-url">>}

\* linkedin_url.split('/')[-2], the name part of the cache file.
CacheKey(url) ==
    LET parts == SplitOn(url, "/") IN parts[Len(parts) - 1]

CacheKeys == {CacheKey(u) : u \in {v \in CacheUrls : ~CacheKeyRaises(v)}}

NoEntry == [present |-> FALSE, from |-> <<>>]

\* A test that would never find the file.
CacheExists_Never(cache, key) == FALSE

\* if Path(cache_file).exists():
CacheExists(cache, key) == cache[key].present

\* json.dump(person_data, f, indent=2): the profile scraped from url.
CacheEntry(url) == [present |-> TRUE, from |-> url]

CacheIdle ==
    /\ c_pc = "idle"
    /\ c_urls = <<>>
    /\ c_i = 0
    /\ c_run = 0
    /\ c_cache = [k \in CacheKeys |-> NoEntry]
    /\ c_writes = [k \in CacheKeys |-> 0]
    /\ c_log = <<>>

\* A first run in a directory without cache files.
CacheInit ==
    /\ c_pc = "loop"
    /\ c_urls \in SeqsUpTo(CacheUrls, MaxCacheContacts)
    /\ c_i = 1
    /\ c_run = 1
    /\ c_cache = [k \in CacheKeys |-> NoEntry]
    /\ c_writes = [k \in CacheKeys |-> 0]
    /\ c_log = <<>>

\* What a contact's turn did: the key, whether the file existed, whether
\* Person(...) was called, and the URL the profile it used was scraped from
\* (empty when the turn raised before any profile was at hand).
Turn(url, key, hit, scraped, from) ==
    [run |-> c_run, url |-> url, key |-> key, hit |-> hit,
     scraped |-> scraped, from |-> from]

\* The profile part of one iteration: the cache file name, then the cached
\* profile or Person(linkedin_url, ...) and the write of the cache file; an
\* exception ends the contact's turn.
CacheContact ==
    /\ c_pc = "loop"
    /\ c_i <= Len(c_urls)
    /\ LET url == c_urls[c_i] IN
         IF CacheKeyRaises(url)
         THEN /\ c_log' = Append(c_log, Turn(url, <<>>, FALSE, FALSE, <<>>))
              /\ UNCHANGED <<c_cache, c_writes>>
         ELSE LET key == CacheKey(url) IN
              IF CacheExists(c_cache, key)
              THEN /\ c_log' = Append(c_log, Turn(url, key, TRUE, FALSE,
                                                  c_cache[key].from))
                   /\ UNCHANGED <<c_cache, c_writes>>
              ELSE \/ /\ c_log' = Append(c_log,
                                         Turn(url, key, FALSE, TRUE, <<>>))
                      /\ UNCHANGED <<c_cache, c_writes>>
                   \/ /\ c_cache' = [c_cache EXCEPT ![key] = CacheEntry(url)]
                      /\ c_writes' = [c_writes EXCEPT ![key] = @ + 1]
                      /\ c_log' = Append(c_log,
                                         Turn(url, key, FALSE, TRUE, url))
    /\ c_i' = c_i + 1
    /\ UNCHANGED <<c_pc, c_urls, c_run>>
    /\ UNCHANGED <<sendVars, scrapeVars, genVars, batchVars, webVars, siteVars, driverVars, fallbackVars,
                   runVars>>

\* The run ends; a later run starts in the same directory with the rows
\* sampled for it.
CacheNextRun ==
    /\ c_pc = "loop"
    /\ c_i > Len(c_urls)
    /\ IF c_run < MaxRuns
          THEN /\ c_run' = c_run + 1
               /\ c_urls' \in SeqsUpTo(CacheUrls, MaxCacheContacts)
               /\ c_i' = 1
               /\ c_log' = <<>>
               /\ UNCHANGED c_pc
          ELSE /\ c_pc' = "done"
               /\ UNCHANGED <<c_urls, c_i, c_run, c_log>>
    /\ UNCHANGED <<c_cache, c_writes>>
    /\ UNCHANGED <<sendVars, scrapeVars, genVars, batchVars, webVars, siteVars, driverVars, fallbackVars,
                   runVars>>

CacheNext ==
    \/ CacheContact
    \/ CacheNextRun

-----------------------------------------------------------------------------
(* The fallback generators called again on the same arguments              *)

\* A profile text as each formatter writes it for the batch profiles.
FallbackInfos(variant) ==
    IF variant = "shared"
    THEN {JoinLines(FormatProfileForAI(p, c)) :
              p \in BatchPersons, c \in {NoCsv, FullCsv}}
    ELSE {JoinLines(FormatProfileInfo(p, c)) :
              p \in BatchPersons, c \in {EmptyCsv, FullCsv}}

\* random.choice(subject_options)
SubjectChoices == 1..3

\* generate_fallback_email of each of the three generator classes.
FallbackEmails(variant, profile_info, first_name, site) ==
    CASE variant = "shared" -> {SharedFallbackEmail(profile_info, first_name)}
      [] variant = "gmail" ->
            {GmailFallbackEmail(profile_info, first_name, k) :
                 k \in SubjectChoices}
      [] OTHER -> {WebsiteFallbackEmail(site, first_name)}

FallbackIdle ==
    /\ f_variant = "none"
    /\ f_profile_info = <<>>
    /\ f_first = <<>>
    /\ f_site = NoSite
    /\ f_results = <<>>

FallbackInit ==
    /\ f_variant \in {"shared", "gmail", "website"}
    /\ IF f_variant = "website"
          THEN /\ f_profile_info = <<>>
               /\ f_first \in ContactNames
               /\ f_site \in Sites
          ELSE /\ f_profile_info \in FallbackInfos(f_variant)
               /\ f_first \in FirstNames
               /\ f_site = NoSite
    /\ f_results = <<>>

\* One more generate_fallback_email call on the same arguments, with the
\* same sender settings in the environment.
FallbackCall ==
    /\ f_variant # "none"
    /\ Len(f_results) < 2
    /\ \E r \in FallbackEmails(f_variant, f_profile_info, f_first, f_site) :
         f_results' = Append(f_results, r)
    /\ UNCHANGED <<f_variant, f_profile_info, f_first, f_site>>
    /\ UNCHANGED <<sendVars, scrapeVars, genVars, batchVars, webVars, siteVars, driverVars, cacheVars,
                   runVars>>

FallbackNext == FallbackCall

-----------------------------------------------------------------------------
(* The drivers that hold a browser: send_test_emails and send_ai_email     *)

\* test_contacts of send_test_emails.
TestContacts ==
    <<[name |-> "Andreas Garcia", email |-> "andreas@allcode.com"],
      [name |-> "Joel Garcia", email |-> "joel@allcode.com"]>>

\* generate_ai_email_with_linkedin returns the generated email, or the
\* template of its except branch; it lets no exception out.
TestSources == {"ai", "template"}

\* How the try body of send_ai_email ends: the scrape returned nothing, an
\* exception reached the handler before the delivery, CCAPIClient() raised
\* ValueError, or the delivery was submitted.
SinglePaths(creds) ==
    {"no_person_data", "raised_before_delivery"}
        \cup (IF creds THEN {"submitted"} ELSE {"no_credentials"})

\* A finally block that would be skipped when the handler had run.
QuitsAfter_NotOnError(quits, driver, path) ==
    IF driver = "live" /\ path \in {"no_person_data", "submitted", "completed"}
    THEN quits + 1 ELSE quits

\* finally: if driver: driver.quit()
QuitsAfter(quits, driver, path) ==
    IF driver = "live" THEN quits + 1 ELSE quits

RunIdle ==
    /\ r_fn = "none"
    /\ r_pc = "idle"
    /\ r_creds = FALSE
    /\ r_driver = "unset"
    /\ r_quits = 0
    /\ r_i = 0
    /\ r_results = <<>>
    /\ r_log = <<>>
    /\ r_exc = "none"

RunInit ==
    /\ r_fn \in {"send_test_emails", "send_ai_email"}
    /\ r_pc = "start"
    /\ r_creds \in BOOLEAN
    /\ r_driver = "unset"
    /\ r_quits = 0
    /\ r_i = 0
    /\ r_results = <<>>
    /\ r_log = <<>>
    /\ r_exc = "none"

\* The statements before the try: the generator is built and
\* safe_get_driver() hands back a driver or nothing.  send_test_emails then
\* builds CCAPIClient(), which raises ValueError without the credentials;
\* that statement is before the try, so no finally block runs for it.
RunOpen ==
    /\ r_pc = "start"
    /\ \E got \in {"live", "none"} :
         /\ r_driver' = got
         /\ IF r_fn = "send_test_emails"
            THEN IF r_creds
                 THEN /\ r_pc' = "loop"
                      /\ r_i' = 1
                      /\ UNCHANGED r_exc
                 ELSE /\ r_pc' = "raised"
                      /\ r_exc' = "ValueError"
                      /\ UNCHANGED r_i
            ELSE /\ r_pc' = "try"
                 /\ UNCHANGED <<r_i, r_exc>>
    /\ UNCHANGED <<r_fn, r_creds, r_quits, r_results, r_log>>
    /\ UNCHANGED <<sendVars, scrapeVars, genVars, batchVars, webVars,
                   siteVars, driverVars, cacheVars, fallbackVars>>

\* One turn of the loop of send_test_emails: the email is generated, the
\* delivery submitted, its result printed, and the loop sleeps.
RunTestContact ==
    /\ r_pc = "loop"
    /\ r_i <= Len(TestContacts)
    /\ \E source \in TestSources, outcome \in Outcomes :
         /\ r_results' = Append(r_results,
                           [to_email |-> TestContacts[r_i].email,
                            source |-> source, outcome |-> outcome])
         /\ r_log' = r_log \o <<Event("submit", 0)>>
                           \o Pause(outcome, BatchDelay)
    /\ r_i' = r_i + 1
    /\ UNCHANGED <<r_fn, r_pc, r_creds, r_driver, r_quits, r_exc>>
    /\ UNCHANGED <<sendVars, scrapeVars, genVars, batchVars, webVars,
                   siteVars, driverVars, cacheVars, fallbackVars>>

\* After the loop of send_test_emails: the summary, then the finally block.
RunTestFinish ==
    /\ r_pc = "loop"
    /\ r_i > Len(TestContacts)
    /\ r_quits' = QuitsAfter(r_quits, r_driver, "completed")
    /\ r_pc' = "returned"
    /\ UNCHANGED <<r_fn, r_creds, r_driver, r_i, r_results, r_log, r_exc>>
    /\ UNCHANGED <<sendVars, scrapeVars, genVars, batchVars, webVars,
                   siteVars, driverVars, cacheVars, fallbackVars>>

\* The try/except/finally of send_ai_email: scrape, format, generate,
\* parse, CCAPIClient(), the delivery; every way out goes through finally.
RunSingle ==
    /\ r_pc = "try"
    /\ \E path \in SinglePaths(r_creds) :
         /\ IF path = "submitted"
            THEN \E outcome \in Outcomes :
                   /\ r_results' = Append(r_results,
                                     [to_email |-> "to_email",
                                      source |-> "ai", outcome |-> outcome])
                   /\ r_log' = r_log \o <<Event("submit", 0)>>
            ELSE UNCHANGED <<r_results, r_log>>
         /\ r_exc' = CASE path = "no_credentials" -> "ValueError"
                       [] path = "raised_before_delivery" -> "Exception"
                       [] OTHER -> "none"
         /\ r_quits' = QuitsAfter(r_quits, r_driver, path)
    /\ r_pc' = "returned"
    /\ UNCHANGED <<r_fn, r_creds, r_driver, r_i>>
    /\ UNCHANGED <<sendVars, scrapeVars, genVars, batchVars, webVars,
                   siteVars, driverVars, cacheVars, fallbackVars>>

RunNext ==
    \/ RunOpen
    \/ RunTestContact
    \/ RunTestFinish
    \/ RunSingle

-----------------------------------------------------------------------------
(* Specifications: one per component, the others at rest                   *)

InitSend == SendInit /\ ScrapeIdle /\ GenIdle /\ BatchIdle /\ WebIdle
    /\ SiteIdle /\ DriverIdle /\ CacheIdle /\ FallbackIdle /\ RunIdle

\* One delivery call, from its entry to its return.
SpecSend == InitSend /\ [][SendNext]_vars

InitScrape == ScrapeInit /\ SendIdle /\ GenIdle /\ BatchIdle /\ WebIdle
    /\ SiteIdle /\ DriverIdle /\ CacheIdle /\ FallbackIdle /\ RunIdle

\* One scrape_linkedin_with_posts call.
SpecScrape == InitScrape /\ [][ScrapeNext]_vars

InitGen == GenInit /\ SendIdle /\ ScrapeIdle /\ BatchIdle /\ WebIdle
    /\ SiteIdle /\ DriverIdle /\ CacheIdle /\ FallbackIdle /\ RunIdle

\* One formatter call followed by one generator call.
SpecGen == InitGen /\ [][GenNext]_vars

InitBatch == BatchInit /\ SendIdle /\ ScrapeIdle /\ GenIdle /\ WebIdle
    /\ SiteIdle /\ DriverIdle /\ CacheIdle /\ FallbackIdle /\ RunIdle

\* A generation run followed by a send-only run over its report.
SpecBatch == InitBatch /\ [][BatchNext]_vars

InitWeb == WebInit /\ SendIdle /\ ScrapeIdle /\ GenIdle /\ BatchIdle
    /\ SiteIdle /\ DriverIdle /\ CacheIdle /\ FallbackIdle /\ RunIdle

\* One process_website_contacts run over the spreadsheet.
SpecWeb == InitWeb /\ [][WebNext]_vars

InitSite ==
    SiteInit /\ SendIdle /\ ScrapeIdle /\ GenIdle /\ BatchIdle /\ WebIdle
    /\ DriverIdle /\ CacheIdle /\ FallbackIdle /\ RunIdle

\* One scrape_website call.
SpecSite == InitSite /\ [][SiteNext]_vars

InitDriver ==
    DriverInit /\ SendIdle /\ ScrapeIdle /\ GenIdle /\ BatchIdle /\ WebIdle
    /\ SiteIdle /\ CacheIdle /\ FallbackIdle /\ RunIdle

\* Any sequence of get_or_create_driver and close_driver calls.
SpecDriver == InitDriver /\ [][DriverNext]_vars

InitCache ==
    CacheInit /\ SendIdle /\ ScrapeIdle /\ GenIdle /\ BatchIdle /\ WebIdle
    /\ SiteIdle /\ DriverIdle /\ FallbackIdle /\ RunIdle

\* Runs of generate_ai_gmail_outbound over one cache directory.
SpecCache == InitCache /\ [][CacheNext]_vars

InitFallback ==
    FallbackInit /\ SendIdle /\ ScrapeIdle /\ GenIdle /\ BatchIdle /\ WebIdle
    /\ SiteIdle /\ DriverIdle /\ CacheIdle /\ RunIdle

\* Two generate_fallback_email calls on the same arguments.
SpecFallback == InitFallback /\ [][FallbackNext]_vars

InitRun ==
    RunInit /\ SendIdle /\ ScrapeIdle /\ GenIdle /\ BatchIdle /\ WebIdle
    /\ SiteIdle /\ DriverIdle /\ CacheIdle /\ FallbackIdle

\* One run of send_test_emails or of send_ai_email.
SpecRun == InitRun /\ [][RunNext]_vars

\* One run of any of the scripts that submit deliveries in a loop.
InitLoops == InitBatch \/ InitWeb \/ InitRun

LoopsNext == BatchNext \/ WebNext \/ RunNext

SpecLoops == InitLoops /\ [][LoopsNext]_vars

-----------------------------------------------------------------------------
(* Claims on the delivery clients                                          *)

\* C1: for every CCAPIClient send operation and every response of the
\* delivery endpoint, the returned result has success = true if the HTTP
\* status is 200 or 201 and success = false for every other status, whatever
\* the response body is.
C1_SuccessFollowsStatus ==
    (s_op \in CCAPIOps /\ s_pc = "done" /\ s_status # 0)
        => /\ s_result.kind = "returned"
           /\ s_result.success = (s_status \in {200, 201})

\* C2: a CCAPIClient send operation never raises to its caller: an exception
\* while building the payload, posting it or reading the response yields a
\* returned result with success = false and the error text in its error field.
C2_NeverRaises ==
    (s_op \in CCAPIOps /\ s_pc = "done")
        => /\ s_result.kind = "returned"
           /\ (s_exc # "none" =>
                  /\ s_result.success = FALSE
                  /\ s_result.error = s_exc)

\* A call whose POST was sent and failed in transport has returned.
C2_Witness ==
    /\ s_op \in CCAPIOps
    /\ s_pc = "done"
    /\ s_exc = "ClientError"
    /\ s_posts = 1

\* C3: send_email_via_ccai returns True when the endpoint answers 200 or 201,
\* False for any other status or a transport exception, and never raises.
C3_ViaSuccessFollowsStatus ==
    (s_op = ViaOp /\ s_pc = "done")
        => /\ s_result.kind = "returned"
           /\ s_result.success = (s_status \in {200, 201})


\* C14: no delivery request is submitted while a required credential (API
\* key or client id) is missing.
C14_NoPostWithoutCredentials ==
    s_posts > 0 => s_creds.api_key /\ s_creds.client_id

\* C17: every email campaign payload built by a delivery function carries a
\* scheduledTimestamp strictly later than the moment it is built and the
\* scheduledTimezone 'America/Los_Angeles', whatever schedule offset the
\* command line of send_single_email gave.
C17_ScheduledInTheFuture ==
    (s_payload.built /\ s_op # "send_sms")
        => /\ s_payload.scheduled
           /\ s_payload.scheduledTimestamp > s_payload.built_at
           /\ s_payload.scheduledTimezone = "America/Los_Angeles"
-----------------------------------------------------------------------------
(* Claims on the scraper                                                   *)

NonEmptyFields(profile) ==
    /\ profile.name # <<>>
    /\ profile.company # <<>>
    /\ profile.job_title # <<>>
    /\ profile.about # <<>>
    /\ profile.location # <<>>

\* C4: when navigation raises or the page is blocked (login, authwall or
\* challenge URL, "this page isn't working" title), the scrape returns -- it
\* does not raise -- a fallback profile whose name, company, job_title, about
\* and location are all non-empty.
C4_BlockedGivesFallback ==
    (sc_pc = "done" /\ (sc_page.nav = "raises" \/ PageBlocked(sc_page)))
        => /\ sc_result.kind = "returned"
           /\ sc_result.fallback
           /\ NonEmptyFields(sc_result.profile)

\* An authwall page for a URL whose last segment has no letter: the name is
\* the "LinkedIn User" placeholder.
C4_Witness ==
    /\ sc_pc = "done"
    /\ sc_url = <<"-", "7", "/">>
    /\ sc_page.nav = "ok"
    /\ sc_page.urlflag = "authwall"
    /\ sc_result.fallback
    /\ sc_result.profile.name = LinkedInUser


\* C18: on a blocked page (login, authwall or challenge in the current URL,
\* "this page isn't working" in the title) the scrape returns the fallback
\* profile without any field extraction: no extraction call is entered, no
\* selector lookup is made and no field is set.
C18_BlockedSkipsExtraction ==
    (/\ sc_page.nav = "ok"
     /\ \/ sc_page.urlflag \in {"login", "authwall", "challenge"}
        \/ sc_page.unworking)
        => /\ sc_pc \in {"loaded", "done"}
           /\ sc_lookups = 0
           /\ sc_name = <<>> /\ sc_headline = <<>> /\ sc_location = <<>>
           /\ sc_pc = "done" => sc_result.fallback

\* A challenge page whose elements would have given a name.
C18_Witness ==
    /\ sc_pc = "done"
    /\ sc_page.nav = "ok"
    /\ sc_page.urlflag = "challenge"
    /\ ~sc_page.unworking
    /\ sc_page.name = << <<<<>>, <<"Jane">>>> >>
    /\ sc_result.fallback

\* What a field's extraction is to give: the first text, in selector order
\* and then element order, that is non-empty and passes the filter, else the
\* placeholder.
FirstQualifying(field, lookups, default) ==
    LET t == FirstPassing(field, FlattenLookups(lookups))
    IN IF t = NoText THEN default ELSE t

\* C19: on a page that is not blocked each extracted field is the text of
\* the first element, in selector order and then element order, whose
\* stripped text is non-empty and passes the field's filter; the placeholder
\* is given only when no element qualifies.
C19_FirstQualifyingText ==
    sc_pc = "extracted"
        => /\ sc_name = FirstQualifying("name", sc_page.name, NameNotFound)
           /\ sc_headline = FirstQualifying("headline", sc_page.headline,
                                            HeadlineNotFound)
           /\ sc_location = FirstQualifying("location", sc_page.location,
                                            LocationNotFound)

-----------------------------------------------------------------------------
(* Claims on the formatters and generators                                 *)

\* C5: every line the formatter emits carries only non-empty values: no
\* line is written for a field that is empty, absent or None, the Name and
\* Role lines included.
C5_NoLineForEmptyField ==
    (g_variant \in {"shared", "gmail"} /\ g_pc \in {"formatted", "done"})
        => \A i \in 1..Len(g_lines) :
             \A k \in 1..Len(g_lines[i].values) :
               Truthy(g_lines[i].values[k])

\* Number of opening minus closing paragraph tags in the first i tokens.
PDepth(s, i) ==
    Cardinality({j \in 1..i : s[j] = "<p>"})
      - Cardinality({j \in 1..i : s[j] = "</p>"})

\* <p> and </p> alternate, starting with <p> and ending closed, and no
\* <p> is directly followed by its </p>.
PBalanced(s) ==
    /\ \A i \in 1..Len(s) :
         /\ s[i] = "<p>" => PDepth(s, i) = 1
         /\ s[i] = "</p>" => PDepth(s, i) = 0
    /\ PDepth(s, Len(s)) = 0
    /\ \A i \in 1..(Len(s) - 1) : ~(s[i] = "<p>" /\ s[i + 1] = "</p>")

\* The first line is "Subject: " followed by a non-empty subject.
HasSubjectLine(text) ==
    LET first == SplitOn(text, "\n")[1]
    IN /\ StartsWith(first, <<"Subject: ">>)
       /\ Strip(Tail(first)) # <<>>

\* The text after the first line.
BodyOf(text) ==
    LET first == SplitOn(text, "\n")[1]
    IN Slice(text, Len(first) + 2, Len(text))

\* C6: whatever the profile text and the first name, the fallback generator
\* returns a text that starts with a "Subject: " line holding a non-empty
\* subject and whose body has balanced, properly nested, non-empty
\* <p>...</p> paragraphs.
C6_FallbackWellFormed ==
    (g_pc = "done" /\ g_result.source # "ai")
        => /\ g_result.kind = "returned"
           /\ HasSubjectLine(g_result.text)
           /\ PBalanced(BodyOf(g_result.text))

\* The value the template should carry for a profile value: the value
\* itself, or "" when it is empty, absent or None.
Expected(v) == IF Truthy(v) THEN v ELSE <<>>

\* C7: when the profile's title or company is unknown (empty, absent or
\* None), the role and the company the fallback template carries are the
\* profile's values, with "" for an unknown one.
C7_UnknownBecomesEmpty ==
    (/\ g_pc = "done"
     /\ g_variant \in {"shared", "gmail"}
     /\ g_result.source = "fallback"
     /\ \E k \in 1..2 : ~Truthy(g_lines[2].values[k]))
        => /\ g_result.role = Expected(g_lines[2].values[1])
           /\ g_result.company = Expected(g_lines[2].values[2])

\* The fallback generator's possible outputs for the inputs of the call in
\* progress.
FallbackOutputs ==
    CASE g_variant = "shared" ->
           {SharedFallbackEmail(g_profile_info, g_first)}
      [] g_variant = "gmail" ->
           {GmailFallbackEmail(g_profile_info, g_first, k) : k \in 1..3}
      [] OTHER -> {WebsiteFallbackEmail(g_site, g_first)}

\* C8: a generation call returns a text and never raises; when the
\* endpoint was not used, the text is the fallback generator's output for
\* the same inputs.
C8_GenerationNeverRaises ==
    g_pc = "done"
        => /\ g_result.kind = "returned"
           /\ g_result.source # "ai" => g_result \in FallbackOutputs

-----------------------------------------------------------------------------
(* Claims on the batch report                                              *)

\* The subject of a generated email: its first line without the leading
\* "Subject: ".
GeneratedSubject(text) ==
    LET first == SplitOn(text, "\n")[1]
    IN IF StartsWith(first, <<"Subject: ">>) THEN Tail(first) ELSE first

\* The body of a generated email: what follows the first line and the
\* line ends after it.
GeneratedBody(text) ==
    LET rest == BodyOf(text)
        kept == {k \in 1..Len(rest) : rest[k] # "\n"}
    IN IF kept = {} THEN <<>>
       ELSE Slice(rest, CHOOSE k \in kept : \A m \in kept : k <= m, Len(rest))

\* C9: for every entry of the report, the subject and the body that
\* send_ai_batch hands to delivery are the subject and the body of the
\* entry's generated email, unchanged by the write, the re-read and the
\* parse.
C9_ReportRoundTrip ==
    \A n \in 1..Len(b_sent) :
        /\ b_sent[n].row_number = b_results[n].row_number
        /\ b_sent[n].subject = GeneratedSubject(b_results[n].ai_generated_email)
        /\ b_sent[n].message = GeneratedBody(b_results[n].ai_generated_email)

\* C10: once the report is written, every selected contact whose URL is
\* malformed (and whose row has an address) has an entry in it.
C10_InvalidUrlKeepsEntry ==
    (b_pc \in {"generated", "sending", "returned", "raised"} /\ b_csv.found)
        => \A k \in 1..Len(b_selected) :
             (CacheKeyRaises(Strip(b_selected[k].url))
                /\ Strip(b_selected[k].email) # <<>>)
               => \E n \in 1..Len(b_file) :
                    /\ b_file # NoFile
                    /\ b_file[n].row_number = k

-----------------------------------------------------------------------------
(* Claims on the batch drivers                                             *)

\* The contact has neither a website to scrape nor an address: both cells
\* are missing, empty or white space.
LacksBoth(contact) ==
    /\ ~Truthy(contact.website) \/ Strip(contact.website) = <<>>
    /\ ~Truthy(contact.email) \/ Strip(contact.email) = <<>>

InSeq(x, s) == \E n \in 1..Len(s) : s[n] = x

\* C11: a contact without a scrapeable URL and without an address is
\* skipped: no scrape, no generation and no delivery request is made for
\* it.
C11_ContactLackingBothSkipped ==
    \A k \in 1..Len(w_contacts) :
        LacksBoth(w_contacts[k])
            => /\ ~InSeq(k, w_scrapes)
               /\ ~InSeq(k, w_generated)
               /\ \A n \in 1..Len(w_requests) : w_requests[n].contact # k

\* C12: an exception raised while one contact is processed is caught for
\* that contact only: when the run returns, every contact of the sample has
\* had its turn.
C12_LoopContinuesAfterError ==
    w_pc = "returned" => w_i = Len(Take(w_contacts, WebLimit)) + 1

C15_SampledOrderKept ==
    /\ \A n \in 1..Len(b_results) :
           /\ b_results[n].row_number \in 1..Len(b_selected)
           /\ b_results[n].email = b_selected[b_results[n].row_number].email
    /\ \A m, n \in 1..Len(b_results) :
           m < n => b_results[m].row_number < b_results[n].row_number
    /\ \A n \in 1..Len(b_sent) :
           b_sent[n].row_number = b_results[n].row_number
    /\ b_pc = "sending" => /\ Len(b_sent) = b_j - 1
                           /\ b_sent_emails + b_errors = b_j - 1

\* Two report entries were delivered, the second after the first.
C15_Witness ==
    /\ Len(b_results) = 2
    /\ Len(b_sent) = 2
    /\ b_sent[1].row_number = 1
    /\ b_sent[2].row_number = 2

\* The blank lines of a text: its lines holding nothing but white space.
BlankLines(text) ==
    IF text = <<>> THEN {}
    ELSE LET lines == SplitOn(text, "\n")
         IN {k \in 1..Len(lines) : Strip(lines[k]) = <<>>}

\* C16: when a generated email is split for delivery, the subject no longer
\* holds the 'Subject:' marker and the body passed to delivery has no blank
\* line.
C16_SplitSubjectAndBody ==
    \A n \in 1..Len(b_sent) :
        /\ ~Contains(b_sent[n].subject, <<"Subject: ">>)
        /\ BlankLines(b_sent[n].message) = {}

-----------------------------------------------------------------------------
(* Claims on the website scraper, the driver and the cache                 *)

C22_AtMostOneLiveDriver ==
    /\ Cardinality(d_live) <= 1
    /\ d_live = (IF d_instance = NoDriver THEN {} ELSE {d_instance})
    /\ d_returned.id # NoDriver => d_returned.id = d_instance
    /\ d_instance <= d_created

\* A second driver was created after the first was closed, and a later get
\* call returned it again.
C22_Witness ==
    /\ d_created = 2
    /\ d_calls = 4
    /\ d_live = {2}
    /\ d_returned.id = 2

\* C30: with LINKEDIN_SESSION_COOKIE set, every driver a get call returns,
\* and the driver kept as the shared instance, has completed the whole
\* initialisation sequence (script, navigation, li_at cookie, refresh).
C30_ReturnedDriverInitialised ==
    d_cookie
        => /\ d_returned.id # NoDriver
                 => d_returned.steps =
                        <<"script", "navigate", "add_cookie", "refresh">>
           /\ d_instance # NoDriver
                 => d_steps = <<"script", "navigate", "add_cookie", "refresh">>

\* What holds of the cache in every state: a contact whose cache file
\* existed was served from it without a scrape, a profile that was scraped
\* is in the cache, and no cache file was written twice.
CacheReadThrough ==
    /\ \A n \in 1..Len(c_log) :
         /\ c_log[n].hit => /\ ~c_log[n].scraped
                            /\ c_log[n].from = c_cache[c_log[n].key].from
         /\ (~c_log[n].hit /\ c_log[n].from # <<>>)
               => /\ c_log[n].scraped
                  /\ c_cache[c_log[n].key] =
                         [present |-> TRUE, from |-> c_log[n].url]
    /\ \A k \in CacheKeys : c_writes[k] <= 1

\* What holds of every step: an entry that exists is neither changed nor
\* removed.
CacheEntryKept ==
    \A k \in CacheKeys : c_cache[k].present => c_cache'[k] = c_cache[k]

\* C23: the profile cache is read-through with no expiry: a contact whose
\* cache file exists is served from it without a live scrape, a contact
\* without one is scraped once and the profile written, and an entry once
\* written is never rewritten or removed by a later contact or run.
C23_ReadThroughNoExpiry == []CacheReadThrough /\ [][CacheEntryKept]_vars

\* In a second run a contact was served from the file a first run wrote.
C23_Witness ==
    /\ c_run = 2
    /\ Len(c_log) = 2
    /\ c_log[2].hit
    /\ c_log[2].from = JaneUrl \o <<"/">>
    /\ c_writes[<<"jane">>] = 1

\* C24: a profile served from the cache for a contact was scraped from that
\* contact's own profile URL, written with or without its closing slash.
C24_OwnProfileServed ==
    \A n \in 1..Len(c_log) :
        c_log[n].hit => RStripSlash(c_log[n].from) = RStripSlash(c_log[n].url)

-----------------------------------------------------------------------------
(* Claims on the fallback generators and the batch summary                 *)

\* C25: every fallback generator is deterministic: two calls with the same
\* profile text, first name and sender configuration return the same
\* subject and body.
C25_FallbackDeterministic ==
    Len(f_results) = 2 => f_results[1] = f_results[2]

\* C26: when send_ai_batch finishes its loop, every contact of the report
\* has been counted exactly once: the emails sent plus the errors recorded
\* equal the number of contacts, whatever the deliveries returned or raised.
C26_EveryContactCounted ==
    b_pc = "returned" => b_sent_emails + b_errors = Len(b_contacts)

\* A finished loop that counted one success and one failure.
C26_Witness ==
    /\ b_pc = "returned"
    /\ Len(b_contacts) = 2
    /\ b_sent_emails = 1
    /\ b_errors = 1

-----------------------------------------------------------------------------
(* Claims on the loops that submit deliveries and on the browser they hold *)

\* Between any two delivery submissions of a timeline there is a sleep of
\* the given number of seconds.
Spaced(log, secs) ==
    \A m, n \in 1..Len(log) :
        (m < n /\ log[m].ev = "submit" /\ log[n].ev = "submit")
            => \E k \in (m + 1)..(n - 1) : log[k] = Event("sleep", secs)

\* C27: in send_ai_batch, send_test_emails and process_website_contacts a
\* fixed delay elapses between any two consecutive delivery submissions of
\* a run, whether the earlier submission succeeded, failed or raised.
C27_DelayBetweenSubmissions ==
    /\ Spaced(b_log, BatchDelay)
    /\ Spaced(r_log, BatchDelay)
    /\ Spaced(w_log, WebDelay)

\* A batch that submitted a second delivery after a first one that failed.
C27_Witness ==
    /\ Len(b_sent) = 2
    /\ b_sent_emails = 0
    /\ b_log[3].ev = "submit"

\* C29: in send_ai_email and send_test_emails, once the browser driver has
\* been obtained it is quit exactly once before the function ends, on every
\* way out, missing delivery credentials included.
C29_DriverQuitOnce ==
    (r_pc \in {"returned", "raised"} /\ r_driver = "live") => r_quits = 1

-----------------------------------------------------------------------------
(* Claims on the formatter and the fallback parse taken together           *)

\* C28: for every profile, the role and company the fallback generator
\* recovers from the "Role: <title> at <company>" line are exactly the
\* title and company the formatter wrote, also when the title contains
\* " at " and when both are empty.
C28_RoleLineRoundTrip ==
    (/\ g_pc = "done"
     /\ g_variant \in {"shared", "gmail"}
     /\ g_result.source = "fallback"
     /\ \A k \in 1..2 : g_lines[2].values[k] \notin {Absent, Null})
        => /\ g_result.role = g_lines[2].values[1]
           /\ g_result.company = g_lines[2].values[2]

\* The same, for a title that is a headline and a company that is plain.
C28_HeadlineRoundTrip ==
    (/\ g_pc = "done"
     /\ g_variant \in {"shared", "gmail"}
     /\ g_result.source = "fallback"
     /\ g_lines[2].values = <<Headline, <<"Acme">> >>)
        => /\ g_result.role = Headline
           /\ g_result.company = <<"Acme">>

=============================================================================
